---- MODULE Spec2Model ----
(***************************************************************************)
(* Promotions-and-pricing kernel of the Mithaas Delights backend:          *)
(* the cart handlers of backend/server.py and backend/cart_sync_system.py, *)
(* the coupon and order handlers of backend/server.py, the offers of       *)
(* backend/offers_system.py and the delivery charge of                     *)
(* backend/delivery_utils.py.                                              *)
(*                                                                         *)
(* Conventions.  An Optional[T] field is a set: {} is None, {v} is v.      *)
(* Money is an integer number of 1/10000 rupee (Rupees(n) is n rupees), so *)
(* that a percentage of an amount in whole paise is exact and round(x, 2)  *)
(* is a rounding to a multiple of 100.  A distance is an integer number of *)
(* 1/100 km.  A MongoDB collection keyed by a unique field is a function   *)
(* whose DOMAIN is the set of documents that exist.  Strings are TLA+      *)
(* strings; \o is Python's string concatenation.                           *)
(***************************************************************************)
EXTENDS Integers, Sequences, FiniteSets, TLC

VARIABLES
    products,   \* db.products : product id -> product document
    carts,      \* db.carts    : user id -> list of cart lines (items)
    coupons,    \* db.coupons  : code -> coupon document
    offers,     \* db.offers   : offer id -> offer document
    offer_usage,\* db.offer_usage : sequence of usage records
    orders,     \* db.orders   : sequence of committed order documents
    procs,      \* requests: slot -> handler, position and locals
    last,       \* the response of the handler that completed last
    now,        \* datetime.now(timezone.utc), in ticks
    budget,     \* requests the behaviour may still start
    given,      \* the lines Init draws for MergeSpec (<<>> elsewhere)
    cache       \* DeliveryCalculator.cache: key -> quote

vars == <<products, carts, coupons, offers, offer_usage, orders, procs, last, now, budget,
          given, cache>>

-----------------------------------------------------------------------------
(* Bounds of the model *)

MaxSteps == 2        \* requests in one behaviour of CartSpec
MaxReqQty == 2       \* largest quantity a request carries
MaxIncoming == 2     \* longest list a merge / sync request carries

Users == {"u1", "u2"}

\* Python truthiness of an Optional[int] / Optional[float]
Truthy(opt) == opt # {} /\ opt # {0}
Val(opt) == CHOOSE v \in opt : TRUE

Rupees(n) == n * 10000
Km(n) == n * 100

\* round(x, 2): the nearest multiple of 100, a tie going to the even one
Round2(x) ==
    LET q == x \div 100
        r == x % 100
    IN  IF r < 50 THEN q * 100
        ELSE IF r > 50 THEN (q + 1) * 100
        ELSE IF q % 2 = 0 THEN q * 100 ELSE (q + 1) * 100

Min(a, b) == IF a <= b THEN a ELSE b
Max(a, b) == IF a >= b THEN a ELSE b

RECURSIVE SumSeq(_)
SumSeq(s) == IF s = <<>> THEN 0 ELSE Head(s) + SumSeq(Tail(s))

-----------------------------------------------------------------------------
(* Catalog: products and variants (class Product, class ProductVariant) *)

Variant(w, p, s, a) == [weight |-> w, price |-> p, stock |-> s, is_available |-> a]

Product(n, c, vs) ==
    [name |-> n, category |-> c, is_available |-> TRUE, is_sold_out |-> FALSE,
     variants |-> vs]

\* The product ids and variant weights requests may carry.  "k-1" and "k" with
\* weights "250g" and "1-250g" are distinct pairs whose joined keys coincide.
ProductIds == {"k-1", "k", "m"}
Weights == {"250g", "1-250g"}

InitialProducts ==
    [pid \in {"k-1", "m"} |->
        IF pid = "k-1"
        THEN Product("Kaju Katli", "mithai", <<Variant("250g", Rupees(450), 3, TRUE)>>)
        ELSE Product("Motichoor Laddu", "laddu",
                     <<Variant("250g", Rupees(180), 2, TRUE),
                       Variant("1-250g", Rupees(340), 1, TRUE)>>)]

\* first variant of a product with the given weight, as a set ({} when none)
RECURSIVE FindVariant(_, _)
FindVariant(variants, w) ==
    IF variants = <<>> THEN {}
    ELSE IF Head(variants).weight = w THEN {Head(variants)}
    ELSE FindVariant(Tail(variants), w)

-----------------------------------------------------------------------------
(* Cart lines (class CartItemModel) *)

Line(pid, w, q, p) == [product_id |-> pid, variant_weight |-> w, quantity |-> q, price |-> p]

SameKey(a, pid, w) == a.product_id = pid /\ a.variant_weight = w

\* index of the first line of items with this (product_id, variant_weight), 0 if none
RECURSIVE IndexOfLine(_, _, _, _)
IndexOfLine(items, pid, w, i) ==
    IF i > Len(items) THEN 0
    ELSE IF SameKey(items[i], pid, w) THEN i
    ELSE IndexOfLine(items, pid, w, i + 1)

RemoveAt(s, i) == SubSeq(s, 1, i - 1) \o SubSeq(s, i + 1, Len(s))

RECURSIVE FilterOutKey(_, _, _)
FilterOutKey(items, pid, w) ==
    IF items = <<>> THEN <<>>
    ELSE IF SameKey(Head(items), pid, w) THEN FilterOutKey(Tail(items), pid, w)
    ELSE <<Head(items)>> \o FilterOutKey(Tail(items), pid, w)

RECURSIVE FilterOutProduct(_, _)
FilterOutProduct(items, pid) ==
    IF items = <<>> THEN <<>>
    ELSE IF Head(items).product_id = pid THEN FilterOutProduct(Tail(items), pid)
    ELSE <<Head(items)>> \o FilterOutProduct(Tail(items), pid)

\* server.py add_to_cart / merge_cart: add the quantity to the first line with
\* the same product_id and variant_weight, else append the line
AddLine(items, line) ==
    LET i == IndexOfLine(items, line.product_id, line.variant_weight, 1) IN
    IF i # 0 THEN [items EXCEPT ![i].quantity = @ + line.quantity]
    ELSE Append(items, line)

\* server.py merge_cart, the loop over guest_cart_items
RECURSIVE MergeCartItems(_, _)
MergeCartItems(cart_items, guest_cart_items) ==
    IF guest_cart_items = <<>> THEN cart_items
    ELSE MergeCartItems(AddLine(cart_items, Head(guest_cart_items)), Tail(guest_cart_items))

\* cart_sync_system.py: the dict key f"{item.product_id}-{item.variant_weight}"
ItemKey(item) == item.product_id \o "-" \o item.variant_weight

\* A Python dict as a sequence of [key, item] entries in insertion order.
RECURSIVE DictIndex(_, _, _)
DictIndex(d, k, i) ==
    IF i > Len(d) THEN 0
    ELSE IF d[i].key = k THEN i
    ELSE DictIndex(d, k, i + 1)

\* d[k] = item : a new key is appended, an old key keeps its position
DictSet(d, k, item) ==
    LET i == DictIndex(d, k, 1) IN
    IF i = 0 THEN Append(d, [key |-> k, item |-> item])
    ELSE [d EXCEPT ![i].item = item]

\* {key(item): item for item in existing_items}
RECURSIVE DictOfItems(_, _)
DictOfItems(d, items) ==
    IF items = <<>> THEN d
    ELSE DictOfItems(DictSet(d, ItemKey(Head(items)), Head(items)), Tail(items))

\* the loop of sync_cart / merge_guest_cart over the incoming items
RECURSIVE DictMerge(_, _)
DictMerge(d, incoming) ==
    IF incoming = <<>> THEN d
    ELSE LET k == ItemKey(Head(incoming))
             i == DictIndex(d, k, 1)
         IN  DictMerge(IF i # 0
                       THEN [d EXCEPT ![i].item.quantity = @ + Head(incoming).quantity]
                       ELSE Append(d, [key |-> k, item |-> Head(incoming)]),
                       Tail(incoming))

DictValues(d) == [i \in 1..Len(d) |-> d[i].item]

\* sync_cart / merge_guest_cart: all_items = list(merged_items.values())
SyncMergeItems(existing_items, incoming) ==
    DictValues(DictMerge(DictOfItems(<<>>, existing_items), incoming))

-----------------------------------------------------------------------------
(* validate_cart_items: one line against the catalog *)

Invalid(item, reason) == [item |-> item, reason |-> reason]

\* ValidateItem with the product read before it is checked: the lookup
\* raises, and the except branch reports "Validation error"
ValidateItem_RaisesOnMissing(catalog, item) ==
    IF item.product_id \notin DOMAIN catalog
    THEN [kept |-> FALSE, reason |-> "Validation error", item |-> item, warned |-> FALSE]
    ELSE LET variant == FindVariant(catalog[item.product_id].variants, item.variant_weight) IN
         IF ~catalog[item.product_id].is_available \/ catalog[item.product_id].is_sold_out
         THEN [kept |-> FALSE, reason |-> "Product not available", item |-> item, warned |-> FALSE]
         ELSE IF variant = {}
         THEN [kept |-> FALSE, reason |-> "Variant not found", item |-> item, warned |-> FALSE]
         ELSE IF ~Val(variant).is_available \/ Val(variant).stock < item.quantity
         THEN [kept |-> FALSE, reason |-> "Insufficient stock", item |-> item, warned |-> FALSE]
         ELSE [kept |-> TRUE, reason |-> "",
               item |-> [item EXCEPT !.price = Val(variant).price],
               warned |-> item.price # Val(variant).price]

\* ValidateItem clamping an over-stock quantity to the stock instead of dropping the line
ValidateItem_Clamps(catalog, item) ==
    IF item.product_id \notin DOMAIN catalog
    THEN [kept |-> FALSE, reason |-> "Product not found", item |-> item, warned |-> FALSE]
    ELSE LET variant == FindVariant(catalog[item.product_id].variants, item.variant_weight) IN
         IF ~catalog[item.product_id].is_available \/ catalog[item.product_id].is_sold_out
         THEN [kept |-> FALSE, reason |-> "Product not available", item |-> item, warned |-> FALSE]
         ELSE IF variant = {}
         THEN [kept |-> FALSE, reason |-> "Variant not found", item |-> item, warned |-> FALSE]
         ELSE IF ~Val(variant).is_available
         THEN [kept |-> FALSE, reason |-> "Insufficient stock", item |-> item, warned |-> FALSE]
         ELSE [kept |-> TRUE, reason |-> "",
               item |-> [item EXCEPT !.price = Val(variant).price,
                                     !.quantity = Min(@, Val(variant).stock)],
               warned |-> item.price # Val(variant).price]

\* validate_cart_items without "item.price = current_price"
ValidateItem_KeepsStoredPrice(catalog, item) ==
    IF item.product_id \notin DOMAIN catalog
    THEN [kept |-> FALSE, reason |-> "Product not found", item |-> item, warned |-> FALSE]
    ELSE LET product == catalog[item.product_id]
             variant == FindVariant(product.variants, item.variant_weight)
         IN
         IF ~product.is_available \/ product.is_sold_out
         THEN [kept |-> FALSE, reason |-> "Product not available", item |-> item, warned |-> FALSE]
         ELSE IF variant = {}
         THEN [kept |-> FALSE, reason |-> "Variant not found", item |-> item, warned |-> FALSE]
         ELSE IF ~Val(variant).is_available \/ Val(variant).stock < item.quantity
         THEN [kept |-> FALSE, reason |-> "Insufficient stock", item |-> item, warned |-> FALSE]
         ELSE [kept |-> TRUE, reason |-> "", item |-> item,
               warned |-> item.price # Val(variant).price]

\* the outcome for one item: kept (with the price corrected) or dropped with a reason
ValidateItem(catalog, item) ==
    IF item.product_id \notin DOMAIN catalog
    THEN [kept |-> FALSE, reason |-> "Product not found", item |-> item, warned |-> FALSE]
    ELSE LET product == catalog[item.product_id]
             variant == FindVariant(product.variants, item.variant_weight)
         IN
         IF ~product.is_available \/ product.is_sold_out
         THEN [kept |-> FALSE, reason |-> "Product not available", item |-> item, warned |-> FALSE]
         ELSE IF variant = {}
         THEN [kept |-> FALSE, reason |-> "Variant not found", item |-> item, warned |-> FALSE]
         ELSE IF ~Val(variant).is_available \/ Val(variant).stock < item.quantity
         THEN [kept |-> FALSE, reason |-> "Insufficient stock", item |-> item, warned |-> FALSE]
         ELSE [kept |-> TRUE, reason |-> "",
               item |-> [item EXCEPT !.price = Val(variant).price],
               warned |-> item.price # Val(variant).price]

PriceWarning(catalog, item) ==
    "Price updated for " \o catalog[item.product_id].name \o " (" \o item.variant_weight \o ")"

RECURSIVE ValidateLoop(_, _, _)
ValidateLoop(catalog, cart_items, acc) ==
    IF cart_items = <<>> THEN acc
    ELSE LET r == ValidateItem(catalog, Head(cart_items)) IN
         ValidateLoop(catalog, Tail(cart_items),
            IF r.kept
            THEN [acc EXCEPT !.valid_items = Append(@, r.item),
                             !.warnings = IF r.warned
                                          THEN Append(@, PriceWarning(catalog, r.item))
                                          ELSE @]
            ELSE [acc EXCEPT !.invalid_items = Append(@, Invalid(r.item, r.reason))])

RECURSIVE TotalAmount(_)
TotalAmount(items) ==
    IF items = <<>> THEN 0
    ELSE Head(items).price * Head(items).quantity + TotalAmount(Tail(items))

validate_cart_items(catalog, cart_items) ==
    LET r == ValidateLoop(catalog, cart_items,
                 [valid_items |-> <<>>, invalid_items |-> <<>>, warnings |-> <<>>])
    IN  [valid_items |-> r.valid_items, invalid_items |-> r.invalid_items,
         warnings |-> r.warnings, total_amount |-> TotalAmount(r.valid_items)]

\* server.py validate_cart: a line survives when its product and variant exist
RECURSIVE ServerValidateLoop(_, _, _)
ServerValidateLoop(catalog, cart_items, acc) ==
    IF cart_items = <<>> THEN acc
    ELSE LET item == Head(cart_items)
             ok == /\ item.product_id \in DOMAIN catalog
                   /\ FindVariant(catalog[item.product_id].variants, item.variant_weight) # {}
         IN  ServerValidateLoop(catalog, Tail(cart_items),
                IF ok THEN [acc EXCEPT !.valid_items = Append(@, item)]
                ELSE [acc EXCEPT !.removed_items = Append(@, item)])


server_validate_cart(catalog, cart_items) ==
    ServerValidateLoop(catalog, cart_items, [valid_items |-> <<>>, removed_items |-> <<>>])

-----------------------------------------------------------------------------
(* Responses and the carts collection *)

\* had_cart, existing, incoming: what the handler read; checked: the list it
\* validated; the rest: its result
Resp(op, user, status) ==
    [op |-> op, user |-> user, status |-> status,
     had_cart |-> FALSE, existing |-> <<>>, incoming |-> <<>>, checked |-> <<>>,
     valid_items |-> <<>>, invalid_items |-> <<>>, removed_items |-> <<>>,
     warnings |-> <<>>]

NoResp == Resp("none", "", 0)

ValidationResp(op, user, checked, r) ==
    [Resp(op, user, 200) EXCEPT !.checked = checked, !.valid_items = r.valid_items,
                                !.invalid_items = r.invalid_items, !.warnings = r.warnings]

\* insert_one of a new cart / update_one {"$set": {"items": ...}} of the user's cart
PutCart(cs, u, items) ==
    [v \in DOMAIN cs \cup {u} |-> IF v = u THEN items ELSE cs[v]]

\* update_many {"$pull": {"items": {"product_id": pid}}}
PullProduct(cs, pid) == [v \in DOMAIN cs |-> FilterOutProduct(cs[v], pid)]

\* update_many {"$pull": {"items": {"product_id": pid, "variant_weight": w}}}
RECURSIVE PullVariants(_, _, _)
PullVariants(cs, pid, ws) ==
    IF ws = {} THEN cs
    ELSE LET w == CHOOSE x \in ws : TRUE IN
         PullVariants([v \in DOMAIN cs |-> FilterOutKey(cs[v], pid, w)], pid, ws \ {w})

WeightsOf(variants) == {variants[i].weight : i \in 1..Len(variants)}

ReqQuantities == (-1)..MaxReqQty

\* the lines a client may hold locally, with the price it saw
IncomingKeys == {<<"k-1", "250g">>, <<"k", "1-250g">>, <<"m", "250g">>}
ClientPrice(k) == IF k[1] = "m" THEN Rupees(180) ELSE Rupees(450)
IncomingQty(k) == IF k[1] = "m" THEN MaxReqQty ELSE 1
IncomingLines == {Line(k[1], k[2], IncomingQty(k), ClientPrice(k)) : k \in IncomingKeys}

SeqsUpTo(S, n) == UNION {[1..m -> S] : m \in 0..n}
IncomingLists == SeqsUpTo(IncomingLines, MaxIncoming)

CartFrame == UNCHANGED <<coupons, offers, offer_usage, orders, procs, now, given, cache>>
Step == budget > 0 /\ budget' = budget - 1

-----------------------------------------------------------------------------
(* Cart handlers of server.py, one action per handler *)

get_cart(u) ==
    /\ Step
    /\ carts' = IF u \in DOMAIN carts THEN carts ELSE PutCart(carts, u, <<>>)
    /\ last' = Resp("get_cart", u, 200)
    /\ UNCHANGED products /\ CartFrame

add_to_cart(u, pid, w, q) ==
    /\ Step
    /\ IF pid \notin DOMAIN products
       THEN /\ last' = Resp("add_to_cart", u, 404)
            /\ UNCHANGED carts
       ELSE LET variant == FindVariant(products[pid].variants, w)
                cart_items == IF u \in DOMAIN carts THEN carts[u] ELSE <<>>
            IN  IF variant = {}
                THEN /\ last' = Resp("add_to_cart", u, 400)
                     /\ UNCHANGED carts
                ELSE /\ carts' = PutCart(carts, u,
                                    AddLine(cart_items, Line(pid, w, q, Val(variant).price)))
                     /\ last' = Resp("add_to_cart", u, 200)
    /\ UNCHANGED products /\ CartFrame

update_cart_item(u, pid, w, q) ==
    /\ Step
    /\ IF u \notin DOMAIN carts
       THEN /\ last' = Resp("update_cart_item", u, 404)
            /\ UNCHANGED carts
       ELSE LET i == IndexOfLine(carts[u], pid, w, 1) IN
            IF i = 0
            THEN /\ last' = Resp("update_cart_item", u, 404)
                 /\ UNCHANGED carts
            ELSE /\ carts' = PutCart(carts, u,
                                IF q <= 0 THEN RemoveAt(carts[u], i)
                                ELSE [carts[u] EXCEPT ![i].quantity = q])
                 /\ last' = Resp("update_cart_item", u, 200)
    /\ UNCHANGED products /\ CartFrame

remove_from_cart(u, pid, w) ==
    /\ Step
    /\ IF u \notin DOMAIN carts
       THEN /\ last' = Resp("remove_from_cart", u, 404)
            /\ UNCHANGED carts
       ELSE /\ carts' = PutCart(carts, u, FilterOutKey(carts[u], pid, w))
            /\ last' = Resp("remove_from_cart", u, 200)
    /\ UNCHANGED products /\ CartFrame

clear_cart(u) ==
    /\ Step
    /\ carts' = IF u \in DOMAIN carts THEN PutCart(carts, u, <<>>) ELSE carts
    /\ last' = Resp("clear_cart", u, 200)
    /\ UNCHANGED products /\ CartFrame

merge_cart(u, guest_cart_items) ==
    /\ Step
    /\ LET cart_items == IF u \in DOMAIN carts THEN carts[u] ELSE <<>> IN
       carts' = PutCart(carts, u, MergeCartItems(cart_items, guest_cart_items))
    /\ last' = Resp("merge_cart", u, 200)
    /\ UNCHANGED products /\ CartFrame

validate_cart(u) ==
    /\ Step
    /\ IF u \notin DOMAIN carts
       THEN /\ last' = Resp("validate_cart", u, 200)
            /\ UNCHANGED carts
       ELSE LET r == server_validate_cart(products, carts[u]) IN
            /\ carts' = PutCart(carts, u, r.valid_items)
            /\ last' = [Resp("validate_cart", u, 200) EXCEPT
                            !.had_cart = TRUE, !.existing = carts[u],
                            !.checked = carts[u], !.valid_items = r.valid_items,
                            !.removed_items = r.removed_items]
    /\ UNCHANGED products /\ CartFrame

-----------------------------------------------------------------------------
(* Cart handlers of cart_sync_system.py *)

\* sync_cart and merge_guest_cart have the same body (lines 86-128, 159-194)
SyncBody(op, u, incoming) ==
    IF u \notin DOMAIN carts
    THEN LET r == validate_cart_items(products, incoming) IN
         /\ carts' = PutCart(carts, u, r.valid_items)
         /\ last' = [ValidationResp(op, u, incoming, r) EXCEPT !.incoming = incoming]
    ELSE LET all_items == SyncMergeItems(carts[u], incoming)
             r == validate_cart_items(products, all_items)
         IN  /\ carts' = PutCart(carts, u, r.valid_items)
             /\ last' = [ValidationResp(op, u, all_items, r) EXCEPT
                            !.had_cart = TRUE, !.existing = carts[u],
                            !.incoming = incoming]

sync_cart(u, local_cart_items) ==
    /\ Step
    /\ SyncBody("sync_cart", u, local_cart_items)
    /\ UNCHANGED products /\ CartFrame

merge_guest_cart(u, guest_cart_items) ==
    /\ Step
    /\ SyncBody("merge_guest_cart", u, guest_cart_items)
    /\ UNCHANGED products /\ CartFrame

\* POST /cart/validate of cart_sync_system.py: validates the list in the request
validate_cart_request(u, cart_items) ==
    /\ Step
    /\ last' = ValidationResp("validate_cart_request", u, cart_items,
                              validate_cart_items(products, cart_items))
    /\ UNCHANGED <<products, carts>> /\ CartFrame

cleanup_cart(u) ==
    /\ Step
    /\ IF u \notin DOMAIN carts
       THEN /\ last' = Resp("cleanup_cart", u, 200)
            /\ UNCHANGED carts
       ELSE LET r == validate_cart_items(products, carts[u]) IN
            /\ carts' = PutCart(carts, u, r.valid_items)
            /\ last' = [ValidationResp("cleanup_cart", u, carts[u], r) EXCEPT
                            !.had_cart = TRUE, !.existing = carts[u]]
    /\ UNCHANGED products /\ CartFrame

-----------------------------------------------------------------------------
(* Catalog handlers of server.py that touch carts *)

delete_product(pid) ==
    /\ Step
    /\ IF pid \notin DOMAIN products
       THEN /\ last' = Resp("delete_product", "", 404)
            /\ UNCHANGED <<products, carts>>
       ELSE /\ products' = [x \in DOMAIN products \ {pid} |-> products[x]]
            /\ carts' = PullProduct(carts, pid)
            /\ last' = Resp("delete_product", "", 200)
    /\ CartFrame

\* the documents an admin may submit for an existing product
ProductUpdates(old) ==
    IF old.variants = <<>> THEN {} ELSE
    {[old EXCEPT !.variants[1].price = @ + Rupees(10)],
     [old EXCEPT !.variants[1].stock = 1],
     [old EXCEPT !.variants[1].is_available = FALSE],
     [old EXCEPT !.is_sold_out = TRUE],
     [old EXCEPT !.variants = Tail(@)]}

update_product(pid, product_update) ==
    /\ Step
    /\ pid \in DOMAIN products
    /\ products[pid].variants # <<>>
    /\ product_update \in ProductUpdates(products[pid])
    /\ products' = [products EXCEPT ![pid] = product_update]
    /\ carts' = PullVariants(carts, pid,
                    WeightsOf(products[pid].variants) \ WeightsOf(product_update.variants))
    /\ last' = Resp("update_product", "", 200)
    /\ CartFrame

-----------------------------------------------------------------------------
(* CartSpec: any sequence of cart and catalog requests *)

NoProcs == <<>>

CartInit ==
    /\ products = InitialProducts
    /\ carts = <<>>
    /\ coupons = <<>>
    /\ offers = <<>>
    /\ offer_usage = <<>>
    /\ orders = <<>>
    /\ procs = NoProcs
    /\ last = NoResp
    /\ now = 0
    /\ budget = MaxSteps
    /\ given = <<>>
    /\ cache = <<>>

CartNext ==
    \/ \E u \in Users : get_cart(u)
    \/ \E u \in Users, pid \in ProductIds, w \in Weights, q \in ReqQuantities :
            add_to_cart(u, pid, w, q)
    \/ \E u \in Users, pid \in ProductIds, w \in Weights, q \in ReqQuantities :
            update_cart_item(u, pid, w, q)
    \/ \E u \in Users, pid \in ProductIds, w \in Weights : remove_from_cart(u, pid, w)
    \/ \E u \in Users : clear_cart(u)
    \/ \E u \in Users, g \in IncomingLists : merge_cart(u, g)
    \/ \E u \in Users : validate_cart(u)
    \/ \E u \in Users, l \in IncomingLists : sync_cart(u, l)
    \/ \E u \in Users, g \in IncomingLists : merge_guest_cart(u, g)
    \/ \E u \in Users, l \in IncomingLists : validate_cart_request(u, l)
    \/ \E u \in Users : cleanup_cart(u)
    \/ \E pid \in ProductIds : delete_product(pid)
    \/ \E pid \in DOMAIN products : \E pu \in ProductUpdates(products[pid]) :
            update_product(pid, pu)

CartSpec == CartInit /\ [][CartNext]_vars

-----------------------------------------------------------------------------
(* ReconcileSpec: the reconciliation handlers as functions of what they     *)
(* find.  Init draws the state: a catalog one admin request (delete_product, *)
(* update_product) away from the initial one, and no cart or a cart as       *)
(* merge_cart, which validates nothing, stores it.  One action applies one   *)
(* handler to it.                                                            *)

StoredCarts == {MergeCartItems(<<>>, g) : g \in IncomingLists}

Catalogs ==
    {InitialProducts}
    \cup {[x \in DOMAIN InitialProducts \ {pid} |-> InitialProducts[x]] :
            pid \in DOMAIN InitialProducts}
    \cup UNION {{[InitialProducts EXCEPT ![pid] = pu] :
                    pu \in ProductUpdates(InitialProducts[pid])} :
                pid \in DOMAIN InitialProducts}

ReconcileUsers == {"u1"}

ReconcileInit ==
    /\ products \in Catalogs
    /\ carts \in {<<>>} \cup {[u \in ReconcileUsers |-> c] : c \in StoredCarts}
    /\ coupons = <<>>
    /\ offers = <<>>
    /\ offer_usage = <<>>
    /\ orders = <<>>
    /\ procs = NoProcs
    /\ last = NoResp
    /\ now = 0
    /\ budget = 1
    /\ given = <<>>
    /\ cache = <<>>

ReconcileNext ==
    \/ \E u \in ReconcileUsers, l \in IncomingLists : sync_cart(u, l)
    \/ \E u \in ReconcileUsers, g \in IncomingLists : merge_guest_cart(u, g)
    \/ \E u \in ReconcileUsers, l \in IncomingLists : validate_cart_request(u, l)
    \/ \E u \in ReconcileUsers : cleanup_cart(u)
    \/ \E u \in ReconcileUsers : validate_cart(u)

ReconcileSpec == ReconcileInit /\ [][ReconcileNext]_vars

-----------------------------------------------------------------------------
(* RepeatSpec: a reconciliation followed by a second one with no incoming    *)
(* lines, against the same catalog.  Init is ReconcileSpec's; the first      *)
(* request is any storing reconciliation, the second one brings nothing.     *)

RepeatInit ==
    /\ products \in Catalogs
    /\ carts \in {<<>>} \cup {[u \in ReconcileUsers |-> c] : c \in StoredCarts}
    /\ coupons = <<>>
    /\ offers = <<>>
    /\ offer_usage = <<>>
    /\ orders = <<>>
    /\ procs = NoProcs
    /\ last = NoResp
    /\ now = 0
    /\ budget = 2
    /\ given = <<>>
    /\ cache = <<>>

RepeatNext ==
    \/ \E u \in ReconcileUsers, l \in IncomingLists : budget = 2 /\ sync_cart(u, l)
    \/ \E u \in ReconcileUsers, g \in IncomingLists : budget = 2 /\ merge_guest_cart(u, g)
    \/ \E u \in ReconcileUsers : budget = 1 /\ sync_cart(u, <<>>)
    \/ \E u \in ReconcileUsers : budget = 1 /\ merge_guest_cart(u, <<>>)
    \/ \E u \in ReconcileUsers : cleanup_cart(u)

RepeatSpec == RepeatInit /\ [][RepeatNext]_vars

-----------------------------------------------------------------------------
(* MergeSpec: one merge handler applied to the two sides of                  *)
(* merge([A, B], [C]) and merge([A], [B, C]).  Init draws lines A, B, C with *)
(* pairwise distinct (product_id, variant_weight) into given; user u1 holds  *)
(* the cart [A, B] and user u2 the cart [A], as merge_cart stores them.  The *)
(* first request merges [C] into u1's cart, the second one, of the same      *)
(* handler, merges [B, C] into u2's cart.                                    *)

MergeLines == {Line(k[1], k[2], q, ClientPrice(k)) : k \in IncomingKeys, q \in 1..MaxReqQty}

MergeTriples ==
    {t \in [1..3 -> MergeLines] :
        \A i, j \in 1..3 : i # j => ~SameKey(t[i], t[j].product_id, t[j].variant_weight)}

MergeInit ==
    /\ given \in MergeTriples
    /\ cache = <<>>
    /\ products = InitialProducts
    /\ carts = [u \in Users |-> IF u = "u1" THEN <<given[1], given[2]>> ELSE <<given[1]>>]
    /\ coupons = <<>>
    /\ offers = <<>>
    /\ offer_usage = <<>>
    /\ orders = <<>>
    /\ procs = NoProcs
    /\ last = NoResp
    /\ now = 0
    /\ budget = 2

MergeUser == IF budget = 2 THEN "u1" ELSE "u2"
MergeIncoming == IF budget = 2 THEN <<given[3]>> ELSE <<given[2], given[3]>>

MergeNext ==
    \/ (budget = 2 \/ last.op = "merge_cart") /\ merge_cart(MergeUser, MergeIncoming)
    \/ (budget = 2 \/ last.op = "sync_cart") /\ sync_cart(MergeUser, MergeIncoming)
    \/ (budget = 2 \/ last.op = "merge_guest_cart")
            /\ merge_guest_cart(MergeUser, MergeIncoming)

MergeSpec == MergeInit /\ [][MergeNext]_vars

-----------------------------------------------------------------------------
(* Coupons (class Coupon) and the coupon evaluators of server.py *)

Coupon(type) ==
    [code |-> "SAVE10", discount_type |-> type,
     discount_percentage |-> {}, discount_amount |-> {}, max_discount_amount |-> {},
     min_order_amount |-> 0, product_ids |-> {}, category_names |-> {},
     buy_quantity |-> {}, get_quantity |-> {}, buy_product_ids |-> {},
     expiry_date |-> 2, is_active |-> TRUE,
     usage_limit |-> {}, per_user_limit |-> {}, used_count |-> 0]

Percentage(pct) == [Coupon("percentage") EXCEPT !.discount_percentage = {pct}]

\* the coupon documents create_coupon may have stored: used_count 0, the code
\* in upper case
CouponDocs ==
    {[Percentage(10) EXCEPT !.usage_limit = {1}, !.per_user_limit = {1}],
     [Coupon("flat") EXCEPT !.discount_amount = {Rupees(100)}],
     [Percentage(10) EXCEPT !.usage_limit = {0}],
     [Percentage(10) EXCEPT !.is_active = FALSE],
     [Percentage(10) EXCEPT !.expiry_date = 0],
     [Percentage(10) EXCEPT !.expiry_date = 1, !.max_discount_amount = {Rupees(50)}],
     [Percentage(50) EXCEPT !.product_ids = {"m"}, !.min_order_amount = Rupees(100)],
     [Coupon("buy_x_get_y") EXCEPT !.buy_quantity = {2}, !.get_quantity = {1}],
     [Coupon("category_discount") EXCEPT !.category_names = {"laddu"},
                                         !.discount_percentage = {20}],
     [Coupon("free_shipping") EXCEPT !.min_order_amount = Rupees(500)]}

\* str.upper() on the codes requests carry
Upper(code) == IF code = "save10" THEN "SAVE10" ELSE code

\* the response of apply_coupon: an HTTP error, or 200 with the amounts
Fail(status) == [status |-> status, discount_amount |-> {}, final_amount |-> {}]
Quote(discount, final) ==
    [status |-> 200, discount_amount |-> {discount}, final_amount |-> {final}]

ItemsOf(cart_items, pids) == SelectSeq(cart_items, LAMBDA item : item.product_id \in pids)

LineTotals(items) == SumSeq([i \in 1..Len(items) |-> items[i].price * items[i].quantity])
Quantities(items) == SumSeq([i \in 1..Len(items) |-> items[i].quantity])

\* a sort by descending price
RECURSIVE InsertByPrice_Descending(_, _)
InsertByPrice_Descending(sorted, item) ==
    IF sorted = <<>> THEN <<item>>
    ELSE IF item.price > Head(sorted).price THEN <<item>> \o sorted
    ELSE <<Head(sorted)>> \o InsertByPrice_Descending(Tail(sorted), item)

\* sorted(items, key=lambda x: x.price): ascending and stable
RECURSIVE InsertByPrice(_, _)
InsertByPrice(sorted, item) ==
    IF sorted = <<>> THEN <<item>>
    ELSE IF item.price < Head(sorted).price THEN <<item>> \o sorted
    ELSE <<Head(sorted)>> \o InsertByPrice(Tail(sorted), item)

RECURSIVE SortedByPrice(_, _)
SortedByPrice(items, acc) ==
    IF items = <<>> THEN acc
    ELSE SortedByPrice(Tail(items), InsertByPrice(acc, Head(items)))

\* the loop that prices the free items, cheapest first
RECURSIVE FreeItemsDiscount(_, _, _)
FreeItemsDiscount(sorted, remaining_free, discount) ==
    IF sorted = <<>> \/ remaining_free <= 0 THEN discount
    ELSE LET free_qty == Min(remaining_free, Head(sorted).quantity) IN
         FreeItemsDiscount(Tail(sorted), remaining_free - free_qty,
                           discount + Head(sorted).price * free_qty)

apply_buy_x_get_y_coupon(coupon_obj, coupon_apply, cart_products) ==
    IF ~Truthy(coupon_obj.buy_quantity) \/ ~Truthy(coupon_obj.get_quantity) THEN Fail(400)
    ELSE IF coupon_apply.cart_items = <<>> THEN Fail(400)
    ELSE
    LET buy_products == IF coupon_obj.buy_product_ids # {} THEN coupon_obj.buy_product_ids
                        ELSE cart_products
        eligible_items == ItemsOf(coupon_apply.cart_items, buy_products)
        total_eligible_qty == Quantities(eligible_items)
        sets_qualified == total_eligible_qty \div Val(coupon_obj.buy_quantity)
        free_items_count == sets_qualified * Val(coupon_obj.get_quantity)
        discount == FreeItemsDiscount(SortedByPrice(eligible_items, <<>>), free_items_count, 0)
    IN  IF eligible_items = <<>> THEN Fail(400)
        ELSE IF total_eligible_qty < Val(coupon_obj.buy_quantity) THEN Fail(400)
        ELSE Quote(Round2(discount), Round2(coupon_apply.order_amount - discount))

\* a percentage quote that ignores max_discount_amount
PercentageQuote_Uncapped(coupon_obj, coupon_apply, base) ==
    IF coupon_obj.discount_percentage = {} THEN Fail(500)
    ELSE LET discount == (base * Val(coupon_obj.discount_percentage)) \div 100
         IN  Quote(Round2(discount), Round2(coupon_apply.order_amount - discount))

\* discount_base * discount_percentage / 100, capped by max_discount_amount;
\* a percentage of None raises TypeError, answered with status 500
PercentageQuote(coupon_obj, coupon_apply, base) ==
    IF coupon_obj.discount_percentage = {} THEN Fail(500)
    ELSE LET raw == (base * Val(coupon_obj.discount_percentage)) \div 100
             discount == IF Truthy(coupon_obj.max_discount_amount)
                         THEN Min(raw, Val(coupon_obj.max_discount_amount))
                         ELSE raw
         IN  Quote(Round2(discount), Round2(coupon_apply.order_amount - discount))

apply_category_coupon(catalog, coupon_obj, coupon_apply, cart_products) ==
    IF coupon_obj.category_names = {} THEN Fail(400)
    ELSE IF coupon_apply.cart_items = <<>> THEN Fail(400)
    ELSE
    LET eligible_items ==
            SelectSeq(coupon_apply.cart_items,
                      LAMBDA item : /\ item.product_id \in cart_products
                                    /\ catalog[item.product_id].category
                                            \in coupon_obj.category_names)
        eligible_amount == LineTotals(eligible_items)
    IN  IF eligible_items = <<>> THEN Fail(400)
        ELSE IF eligible_amount < coupon_obj.min_order_amount THEN Fail(400)
        ELSE PercentageQuote(coupon_obj, coupon_apply, eligible_amount)

apply_free_shipping_coupon(coupon_obj, coupon_apply) ==
    IF coupon_apply.order_amount < coupon_obj.min_order_amount THEN Fail(400)
    ELSE Quote(Rupees(50), coupon_apply.order_amount)

\* the discount of a standard coupon on its base amount
StandardQuote(coupon_obj, coupon_apply, discount_base_amount) ==
    IF coupon_obj.discount_type = "flat" /\ Truthy(coupon_obj.discount_amount)
    THEN LET discount == IF Truthy(coupon_obj.max_discount_amount)
                         THEN Min(Val(coupon_obj.discount_amount),
                                  Val(coupon_obj.max_discount_amount))
                         ELSE Val(coupon_obj.discount_amount)
         IN  Quote(Round2(discount), Round2(coupon_apply.order_amount - discount))
    ELSE PercentageQuote(coupon_obj, coupon_apply, discount_base_amount)

apply_standard_coupon(coupon_obj, coupon_apply, cart_products) ==
    IF coupon_obj.product_ids # {}
    THEN LET eligible_items == ItemsOf(coupon_apply.cart_items, coupon_obj.product_ids)
             discount_base_amount == LineTotals(eligible_items)
         IN  IF coupon_apply.cart_items = <<>> THEN Fail(400)
             ELSE IF eligible_items = <<>> THEN Fail(400)
             ELSE IF discount_base_amount < coupon_obj.min_order_amount THEN Fail(400)
             ELSE StandardQuote(coupon_obj, coupon_apply, discount_base_amount)
    ELSE IF coupon_apply.order_amount < coupon_obj.min_order_amount THEN Fail(400)
         ELSE StandardQuote(coupon_obj, coupon_apply, coupon_apply.order_amount)

\* apply_coupon, lines 1218-1226: the evaluator of the coupon's type
EvaluateCoupon(catalog, coupon_obj, coupon_apply, cart_products) ==
    IF coupon_obj.discount_type = "buy_x_get_y"
    THEN apply_buy_x_get_y_coupon(coupon_obj, coupon_apply, cart_products)
    ELSE IF coupon_obj.discount_type = "category_discount"
    THEN apply_category_coupon(catalog, coupon_obj, coupon_apply, cart_products)
    ELSE IF coupon_obj.discount_type = "free_shipping"
    THEN apply_free_shipping_coupon(coupon_obj, coupon_apply)
    ELSE apply_standard_coupon(coupon_obj, coupon_apply, cart_products)

\* apply_coupon, lines 1190-1197: the basic validation of the coupon document
BasicCheck(coupon_obj, at) ==
    IF ~coupon_obj.is_active THEN 400
    ELSE IF coupon_obj.expiry_date < at THEN 400
    ELSE IF Truthy(coupon_obj.usage_limit)
            /\ coupon_obj.used_count >= Val(coupon_obj.usage_limit) THEN 400
    ELSE 200

\* db.orders.count_documents({"user_id": ..., "coupon_code": ...})
CountOrders(os, user_id, code) ==
    Cardinality({i \in 1..Len(os) : os[i].user_id = user_id /\ os[i].coupon_code = {code}})

\* the ids of the cart's products that db.products holds
CartProducts(catalog, cart_items) ==
    {cart_items[i].product_id : i \in 1..Len(cart_items)} \cap DOMAIN catalog

-----------------------------------------------------------------------------
(* Coordinates and distances.  A coordinate is in millionths of a degree, a  *)
(* destination is the pair <<latitude, longitude>>.                          *)

SHOP == <<22738152, 75831858>>

\* fallback_geocode's table and default
INDORE_CENTER == <<22719600, 75857700>>
INDORE_NEARBY == <<22750000, 75850000>>
INDORE_OUTSKIRTS == <<22680000, 75900000>>

\* round(haversine_distance(SHOP_LAT, SHOP_LON, lat, lon), 2), in 1/100 km,
\* for the destinations of the model: the values the source's formula gives
DistanceTable ==
    <<<<SHOP, 0>>,
      <<INDORE_CENTER, 336>>,
      <<INDORE_NEARBY, 228>>,
      <<INDORE_OUTSKIRTS, 952>>,
      <<<<22783200, 75831900>>, 501>>,
      <<<<22828060, 75831860>>, 1000>>,
      <<<<22828140, 75831860>>, 1001>>,
      <<<<22900000, 75900000>>, 1930>>,
      <<<<23187800, 75831900>>, 5000>>,
      <<<<23187900, 75831900>>, 5001>>,
      <<<<23259900, 77412600>>, 17188>>>>

Destinations == {DistanceTable[i][1] : i \in 1..Len(DistanceTable)}

RoundedDistance(customer) ==
    LET i == CHOOSE i \in 1..Len(DistanceTable) : DistanceTable[i][1] = customer
    IN  DistanceTable[i][2]

\* str.lower() on the delivery types requests carry
Lower(delivery_type) ==
    IF delivery_type \in {"Pickup", "PICKUP"} THEN "pickup" ELSE delivery_type

-----------------------------------------------------------------------------
(* Delivery charge of delivery_utils.py, the one server.py imports.  A quote *)
(* is the dict the function returns: delivery_charge is {c} for a number c   *)
(* and {} for None, error tells whether the dict has an "error" key.         *)

FREE_DELIVERY_MIN_AMOUNT == 1500
FREE_DELIVERY_MAX_DISTANCE_KM == 10
PRICE_PER_KM_BEYOND_FREE == 19
MAX_DELIVERY_DISTANCE_KM == 50

UtilsQuote(distance_km, delivery_charge, is_free_delivery, delivery_type, error) ==
    [distance_km |-> distance_km, delivery_charge |-> {delivery_charge},
     is_free_delivery |-> is_free_delivery, delivery_type |-> delivery_type,
     error |-> error]

\* line 68 of delivery_utils.py, line 63 of enhanced_delivery_system.py
IsPickup_CaseSensitive(delivery_type) == delivery_type = "pickup"

IsPickup(delivery_type) == Lower(delivery_type) = "pickup"

IsFreeDelivery_AmountAbove(distance, order_amount) ==
    /\ order_amount > Rupees(FREE_DELIVERY_MIN_AMOUNT)
    /\ distance <= Km(FREE_DELIVERY_MAX_DISTANCE_KM)

\* line 84
IsFreeDelivery(distance, order_amount) ==
    /\ order_amount >= Rupees(FREE_DELIVERY_MIN_AMOUNT)
    /\ distance <= Km(FREE_DELIVERY_MAX_DISTANCE_KM)

\* distance: round(haversine_distance(shop, customer), 2)
calculate_delivery_charge(distance, order_amount, delivery_type) ==
    IF IsPickup(delivery_type) THEN UtilsQuote(0, 0, TRUE, "pickup", FALSE)
    ELSE IF IsFreeDelivery(distance, order_amount)
    THEN UtilsQuote(distance, 0, TRUE, "delivery", FALSE)
    ELSE IF distance > Km(MAX_DELIVERY_DISTANCE_KM)
    THEN UtilsQuote(distance, 0, FALSE, "delivery", TRUE)
    ELSE UtilsQuote(distance,
                    Round2((Rupees(PRICE_PER_KM_BEYOND_FREE) * distance) \div Km(1)),
                    FALSE, "delivery", FALSE)

-----------------------------------------------------------------------------
(* Delivery charge of enhanced_delivery_system.py *)

DeliveryConfig_FREE_DELIVERY_THRESHOLD == 1500
DeliveryConfig_FREE_DELIVERY_DISTANCE_KM == 10
DeliveryConfig_BASE_DELIVERY_CHARGE == 50
DeliveryConfig_DISTANCE_MULTIPLIER == 5
DeliveryConfig_MAX_DELIVERY_DISTANCE_KM == 50
DeliveryConfig_BASE_DISTANCE_KM == 5

\* lines 93-108: the zone of a distance, for display
DeliveryZone(distance_km) ==
    IF distance_km <= Km(5) THEN "city_center"
    ELSE IF distance_km <= Km(10) THEN "city_extended"
    ELSE IF distance_km <= Km(20) THEN "nearby_suburbs"
    ELSE IF distance_km <= Km(35) THEN "extended_area"
    ELSE "far_area"

\* lines 110-117
BaseCharge(distance_km) ==
    IF distance_km <= Km(DeliveryConfig_BASE_DISTANCE_KM)
    THEN Rupees(DeliveryConfig_BASE_DELIVERY_CHARGE)
    ELSE Rupees(DeliveryConfig_BASE_DELIVERY_CHARGE)
         + ((distance_km - Km(DeliveryConfig_BASE_DISTANCE_KM))
            * Rupees(DeliveryConfig_DISTANCE_MULTIPLIER)) \div Km(1)

\* free_delivery_eligible, free_delivery_distance_eligible: {} when the dict
\* has no such key
EnhancedQuote(delivery_charge, distance_km, is_free_delivery, delivery_zone) ==
    [delivery_charge |-> delivery_charge, distance_km |-> distance_km,
     is_free_delivery |-> is_free_delivery, delivery_zone |-> delivery_zone,
     error |-> FALSE, free_delivery_eligible |-> {},
     free_delivery_distance_eligible |-> {}]

\* calculate_delivery_charge of enhanced_delivery_system.py
enhanced_calculate_delivery_charge(customer, order_amount, delivery_type) ==
    IF IsPickup(delivery_type) THEN EnhancedQuote({0}, 0, TRUE, "pickup")
    ELSE LET distance_km == RoundedDistance(customer)
             amount_eligible ==
                order_amount >= Rupees(DeliveryConfig_FREE_DELIVERY_THRESHOLD)
             distance_eligible ==
                distance_km <= Km(DeliveryConfig_FREE_DELIVERY_DISTANCE_KM)
             is_free_delivery == amount_eligible /\ distance_eligible
         IN  IF distance_km > Km(DeliveryConfig_MAX_DELIVERY_DISTANCE_KM)
             THEN [EnhancedQuote({}, distance_km, FALSE, "out_of_range")
                      EXCEPT !.error = TRUE]
             ELSE [EnhancedQuote({Round2(IF is_free_delivery THEN 0
                                         ELSE BaseCharge(distance_km))},
                                 distance_km, is_free_delivery,
                                 DeliveryZone(distance_km))
                      EXCEPT !.free_delivery_eligible = {amount_eligible},
                             !.free_delivery_distance_eligible = {distance_eligible}]

-----------------------------------------------------------------------------
(* DeliveryCalculator (enhanced_delivery_system.py) *)

\* f"{x:.4f}" of a coordinate: the nearest multiple of 1/10000 degree
Format4(x) == ((x + 50) \div 100) * 100

\* f"{customer_lat:.4f}_{customer_lon:.4f}_{order_amount}_{delivery_type}"
cache_key(customer, order_amount, delivery_type) ==
    <<Format4(customer[1]), Format4(customer[2]), order_amount, delivery_type>>

CachePut(c, key, result) ==
    [k \in DOMAIN c \cup {key} |-> IF k = key THEN result ELSE c[k]]

-----------------------------------------------------------------------------
(* Geocoding (delivery_utils.py).  A pincode is the sequence of its          *)
(* characters, {} for None.  The provider's answer is what requests.get      *)
(* gives: an exception, or a status code and the parsed body, whose lat and  *)
(* lon are {} when float() cannot parse them.                                *)

pincode_map ==
    [p \in {<<"4", "5", "2">>, <<"4", "5", "3">>, <<"4", "5", "4">>} |->
        IF p = <<"4", "5", "2">> THEN INDORE_CENTER
        ELSE IF p = <<"4", "5", "3">> THEN INDORE_NEARBY
        ELSE INDORE_OUTSKIRTS]

Pincodes ==
    {{}, {<<>>}, {<<"4", "5">>}, {<<"4", "5", "3">>},
     {<<"4", "5", "4", "0", "0", "1">>}, {<<"9", "9", "9", "9", "9", "9">>},
     {<<" ", "4", "5", "2">>}}

fallback_geocode_NoDefault(pincode) ==
    IF pincode # {} /\ Val(pincode) # <<>> /\ Len(Val(pincode)) >= 3
       /\ SubSeq(Val(pincode), 1, 3) \in DOMAIN pincode_map
    THEN {pincode_map[SubSeq(Val(pincode), 1, 3)]}
    ELSE {}

\* the coordinates, as a set for the callers that test "if not coords"
fallback_geocode(pincode) ==
    IF pincode # {} /\ Val(pincode) # <<>> /\ Len(Val(pincode)) >= 3
       /\ SubSeq(Val(pincode), 1, 3) \in DOMAIN pincode_map
    THEN {pincode_map[SubSeq(Val(pincode), 1, 3)]}
    ELSE {INDORE_CENTER}

Answer(raises, status_code, data) ==
    [raises |-> raises, status_code |-> status_code, data |-> data]
Place(lat, lon) == [lat |-> lat, lon |-> lon]

ProviderCoordinates ==
    Destinations \ {SHOP, INDORE_CENTER, INDORE_NEARBY, INDORE_OUTSKIRTS}

\* a timeout or a connection error; a 500 and a 429; no match; a body that
\* does not parse; a match
ProviderAnswers ==
    {Answer(TRUE, 0, <<>>), Answer(FALSE, 500, <<>>), Answer(FALSE, 429, <<>>),
     Answer(FALSE, 200, <<>>), Answer(FALSE, 200, <<Place({}, {75831900})>>)}
    \cup {Answer(FALSE, 200, <<Place({c[1]}, {c[2]})>>) : c \in ProviderCoordinates}

Succeeds(provider) ==
    /\ ~provider.raises /\ provider.status_code = 200 /\ provider.data # <<>>
    /\ provider.data[1].lat # {} /\ provider.data[1].lon # {}

\* raised: an exception leaves the function; coords: what it returns, {} for None
GeoResult(coords) == [raised |-> FALSE, coords |-> coords]

geocode_address(pincode, address, provider) ==
    IF provider.raises THEN GeoResult(fallback_geocode(pincode))
    ELSE IF provider.status_code = 200 /\ provider.data # <<>>
    THEN IF provider.data[1].lat = {} \/ provider.data[1].lon = {}
         THEN GeoResult(fallback_geocode(pincode))
         ELSE GeoResult({<<Val(provider.data[1].lat), Val(provider.data[1].lon)>>})
    ELSE GeoResult(fallback_geocode(pincode))

-----------------------------------------------------------------------------
(* Offers (offers_system.py) *)

Offer(id, type, priority) ==
    [id |-> id, offer_type |-> type, discount_percentage |-> {}, discount_amount |-> {},
     max_discount |-> {}, buy_quantity |-> {}, get_quantity |-> {},
     applicable_product_ids |-> {}, category_names |-> {},
     is_active |-> TRUE, start_date |-> 0, end_date |-> 2,
     usage_limit |-> {}, per_user_limit |-> {1}, used_count |-> 0,
     stackable |-> TRUE, priority |-> priority, created_at |-> 0]

InitialOffers ==
    [id \in {"o1", "o2"} |->
        IF id = "o1"
        THEN [Offer("o1", "percentage", 2) EXCEPT !.discount_percentage = {10}]
        ELSE [Offer("o2", "flat_discount", 1) EXCEPT !.discount_amount = {Rupees(20)},
                                                     !.category_names = {"laddu"}]]

\* get_all_offers(active_only=True): the active offers, by priority and then
\* created_at, both descending
ActiveOffers(os, at) ==
    {id \in DOMAIN os : os[id].is_active /\ os[id].start_date <= at /\ os[id].end_date >= at}

RECURSIVE SortOffers(_, _)
SortOffers(os, ids) ==
    IF ids = {} THEN <<>>
    ELSE LET first == CHOOSE a \in ids : \A b \in ids :
                        \/ os[a].priority > os[b].priority
                        \/ os[a].priority = os[b].priority /\ os[a].created_at >= os[b].created_at
         IN  <<os[first]>> \o SortOffers(os, ids \ {first})

get_all_offers(os, at) == SortOffers(os, ActiveOffers(os, at))

\* a cart item as the client posts it to /offers/apply-to-cart
OfferItem(id, category, price, quantity) ==
    [id |-> id, category |-> category, price |-> price, quantity |-> quantity]

_calculate_offer_discount(offer, cart_item) ==
    IF offer.offer_type = "percentage"
    THEN LET discount == ((cart_item.price * Val(offer.discount_percentage)) \div 100)
                                * cart_item.quantity
         IN  IF Truthy(offer.max_discount) THEN Min(discount, Val(offer.max_discount))
             ELSE discount
    ELSE IF offer.offer_type = "flat_discount"
    THEN Min(Val(offer.discount_amount) * cart_item.quantity,
             cart_item.price * cart_item.quantity)
    ELSE IF offer.offer_type = "buy_x_get_y" /\ cart_item.quantity >= Val(offer.buy_quantity)
    THEN Min((cart_item.quantity \div Val(offer.buy_quantity)) * Val(offer.get_quantity)
                    * cart_item.price,
             cart_item.price * cart_item.quantity)
    ELSE 0

IsApplicable(offer, item) ==
    \/ item.id \in offer.applicable_product_ids
    \/ item.category \in offer.category_names
    \/ offer.applicable_product_ids = {} /\ offer.category_names = {}

\* an inner loop that applies every applicable offer
RECURSIVE ItemOffers_AllStack(_, _, _)
ItemOffers_AllStack(sorted_offers, item, item_offers) ==
    IF sorted_offers = <<>> THEN item_offers
    ELSE LET offer == Head(sorted_offers)
             discount == _calculate_offer_discount(offer, item)
         IN  IF IsApplicable(offer, item) /\ discount > 0
             THEN ItemOffers_AllStack(Tail(sorted_offers), item,
                        Append(item_offers, [offer_id |-> offer.id, discount |-> discount]))
             ELSE ItemOffers_AllStack(Tail(sorted_offers), item, item_offers)

\* the inner loop of apply_offers_to_cart: the offers applied to one item
RECURSIVE ItemOffers(_, _, _)
ItemOffers(sorted_offers, item, item_offers) ==
    IF sorted_offers = <<>> THEN item_offers
    ELSE LET offer == Head(sorted_offers)
             discount == _calculate_offer_discount(offer, item)
         IN  IF ~IsApplicable(offer, item) THEN ItemOffers(Tail(sorted_offers), item, item_offers)
             ELSE IF ~offer.stackable /\ item_offers # <<>>
             THEN ItemOffers(Tail(sorted_offers), item, item_offers)
             ELSE IF discount > 0
             THEN ItemOffers(Tail(sorted_offers), item,
                             Append(item_offers, [offer_id |-> offer.id, discount |-> discount]))
             ELSE ItemOffers(Tail(sorted_offers), item, item_offers)

RECURSIVE AppendNew(_, _)
AppendNew(applied_offers, item_offers) ==
    IF item_offers = <<>> THEN applied_offers
    ELSE AppendNew(IF \E i \in 1..Len(applied_offers) :
                            applied_offers[i] = Head(item_offers).offer_id
                   THEN applied_offers
                   ELSE Append(applied_offers, Head(item_offers).offer_id),
                   Tail(item_offers))

\* the outer loop of apply_offers_to_cart
RECURSIVE OffersLoop(_, _, _)
OffersLoop(sorted_offers, cart_items, acc) ==
    IF cart_items = <<>> THEN acc
    ELSE LET item == Head(cart_items)
             item_offers == ItemOffers(sorted_offers, item, <<>>)
             item_discount == SumSeq([i \in 1..Len(item_offers) |-> item_offers[i].discount])
         IN  OffersLoop(sorted_offers, Tail(cart_items),
                [items |-> Append(acc.items,
                                  [id |-> item.id, category |-> item.category,
                                   price |-> item.price, quantity |-> item.quantity,
                                   offer_discount |-> item_discount,
                                   applied_offers |-> item_offers,
                                   final_price |-> Max(0, item.price - item_discount)]),
                 total_discount |-> acc.total_discount + item_discount,
                 applied_offers |-> AppendNew(acc.applied_offers, item_offers)])

OffersResult(os, at, cart_items) ==
    OffersLoop(get_all_offers(os, at), cart_items,
               [items |-> <<>>, total_discount |-> 0, applied_offers |-> <<>>])

-----------------------------------------------------------------------------
(* Requests, replies and request slots of the coupon and order handlers *)

MaxRequests == 2     \* requests in one behaviour of Spec

Slots == 1..MaxRequests

CouponApply(code, order_amount, cart_items, user_id) ==
    [code |-> code, order_amount |-> order_amount, cart_items |-> cart_items,
     user_id |-> user_id]

OrderCreate(user_id, items, total, discount, final, coupon_code, delivery_type, distance) ==
    [user_id |-> user_id, items |-> items, total_amount |-> total,
     discount_amount |-> discount, final_amount |-> final,
     coupon_code |-> coupon_code, delivery_type |-> delivery_type, distance |-> distance]

\* the cart the requests quote and order: u1's stored cart
QuotedCart == <<Line("m", "250g", MaxReqQty, Rupees(180)), Line("k-1", "250g", 1, Rupees(450))>>

ApplyRequests ==
    {CouponApply("save10", Rupees(50), <<>>, {"u1"}),
     CouponApply("save10", LineTotals(QuotedCart), QuotedCart, {"u1"}),
     CouponApply("SAVE10", Rupees(2000), <<>>, {}),
     CouponApply("NOPE", Rupees(50), <<>>, {})}

\* distance {}: the request carries no coordinates
OrderRequests ==
    {OrderCreate("u1", <<Line("m", "250g", 1, Rupees(50))>>, Rupees(50), Rupees(100),
                 Rupees(50) - Rupees(100), {"SAVE10"}, "pickup", {Km(3)}),
     OrderCreate("u1", QuotedCart, LineTotals(QuotedCart), Rupees(81),
                 LineTotals(QuotedCart) - Rupees(81), {"save10"}, "delivery", {}),
     OrderCreate("u2", QuotedCart, LineTotals(QuotedCart), Rupees(81),
                 LineTotals(QuotedCart) - Rupees(81), {"SAVE10"}, "delivery", {}),
     OrderCreate("u1", QuotedCart, LineTotals(QuotedCart), 0,
                 LineTotals(QuotedCart), {}, "delivery", {Km(12)})}

OfferCarts ==
    {<<OfferItem("m", "laddu", Rupees(180), MaxReqQty),
       OfferItem("k-1", "mithai", Rupees(450), 1)>>}

NoRequest == CouponApply("", 0, <<>>, {})

Slot(op, pc, req, coupon) == [op |-> op, pc |-> pc, req |-> req, coupon |-> coupon]
Idle == Slot("none", "idle", NoRequest, {})
Done(op) == Slot(op, "done", NoRequest, {})

\* the slot the next request takes
NextSlot == MaxRequests - budget + 1

\* req: the request; coupon, at: the coupon document apply_coupon read and the
\* time it checked it at; order: the order create_order inserted
Reply(op, status, req) ==
    [op |-> op, status |-> status, req |-> req, coupon |-> {}, at |-> 0,
     discount_amount |-> {}, final_amount |-> {}, order |-> {},
     total_discount |-> 0, applied_offers |-> <<>>, items |-> <<>>]

NoReply == Reply("none", 0, NoRequest)

QuoteReply(req, coupon, at, q) ==
    [Reply("apply_coupon", q.status, req) EXCEPT
        !.coupon = coupon, !.at = at,
        !.discount_amount = q.discount_amount, !.final_amount = q.final_amount]

\* db.coupons.update_one({"code": code}, {"$inc": {"used_count": 1}})
IncUsedCount_Twice(cs, code) ==
    IF code \in DOMAIN cs THEN [cs EXCEPT ![code].used_count = @ + 2] ELSE cs

IncUsedCount(cs, code) ==
    IF code \in DOMAIN cs THEN [cs EXCEPT ![code].used_count = @ + 1] ELSE cs

\* a write that leaves the cart as it was
ClearCart_Keeps(cs, u) == cs

\* db.carts.update_one({"user_id": u}, {"$set": {"items": []}})
ClearCart(cs, u) == IF u \in DOMAIN cs THEN [cs EXCEPT ![u] = <<>>] ELSE cs

QuoteFrame == UNCHANGED <<products, carts, coupons, offers, offer_usage, orders, now, given, cache>>

-----------------------------------------------------------------------------
(* apply_coupon: one action per database read and the code that follows it *)

\* the rest of apply_coupon once the per-user check has passed
AfterUserCheck(p, req, coupon) ==
    IF req.cart_items # <<>>
    THEN /\ procs' = [procs EXCEPT ![p] = Slot("apply_coupon", "products", req, coupon)]
         /\ UNCHANGED last
    ELSE /\ procs' = [procs EXCEPT ![p] = Done("apply_coupon")]
         /\ last' = QuoteReply(req, coupon, now,
                               EvaluateCoupon(products, Val(coupon), req, {}))

\* lines 1183-1200: find the coupon and check it
apply_coupon(coupon_apply) ==
    /\ Step
    /\ LET p == NextSlot
           code == Upper(coupon_apply.code)
           coupon == IF code \in DOMAIN coupons THEN {coupons[code]} ELSE {}
       IN  IF coupon = {}
           THEN /\ procs' = [procs EXCEPT ![p] = Done("apply_coupon")]
                /\ last' = QuoteReply(coupon_apply, {}, now, Fail(404))
           ELSE IF BasicCheck(Val(coupon), now) # 200
           THEN /\ procs' = [procs EXCEPT ![p] = Done("apply_coupon")]
                /\ last' = QuoteReply(coupon_apply, coupon, now,
                                      Fail(BasicCheck(Val(coupon), now)))
           ELSE IF Truthy(Val(coupon).per_user_limit) /\ coupon_apply.user_id # {}
           THEN /\ procs' = [procs EXCEPT ![p] =
                                Slot("apply_coupon", "count", coupon_apply, coupon)]
                /\ UNCHANGED last
           ELSE AfterUserCheck(p, coupon_apply, coupon)
    /\ QuoteFrame

\* lines 1201-1209: count the user's orders with the coupon's code
apply_coupon_count(p) ==
    /\ procs[p].op = "apply_coupon" /\ procs[p].pc = "count"
    /\ LET req == procs[p].req
           coupon == procs[p].coupon
           user_usage_count == CountOrders(orders, Val(req.user_id), Val(coupon).code)
       IN  IF user_usage_count >= Val(Val(coupon).per_user_limit)
           THEN /\ procs' = [procs EXCEPT ![p] = Done("apply_coupon")]
                /\ last' = QuoteReply(req, coupon, now, Fail(400))
           ELSE AfterUserCheck(p, req, coupon)
    /\ UNCHANGED budget /\ QuoteFrame

\* lines 1213-1226: read the cart's products and evaluate the coupon
apply_coupon_products(p) ==
    /\ procs[p].op = "apply_coupon" /\ procs[p].pc = "products"
    /\ LET req == procs[p].req
           coupon == procs[p].coupon
       IN  /\ procs' = [procs EXCEPT ![p] = Done("apply_coupon")]
           /\ last' = QuoteReply(req, coupon, now,
                                 EvaluateCoupon(products, Val(coupon), req,
                                                CartProducts(products, req.cart_items)))
    /\ UNCHANGED budget /\ QuoteFrame

-----------------------------------------------------------------------------
(* apply_offers_to_cart (server.py route and OfferManager method) *)

apply_offers_to_cart(cart_items, user_id) ==
    /\ Step
    /\ procs' = [procs EXCEPT ![NextSlot] = Done("apply_offers_to_cart")]
    /\ LET r == OffersResult(offers, now, cart_items) IN
       last' = [Reply("apply_offers_to_cart", 200, NoRequest) EXCEPT
                    !.total_discount = r.total_discount,
                    !.applied_offers = r.applied_offers, !.items = r.items]
    /\ QuoteFrame

-----------------------------------------------------------------------------
(* create_order: one action per database write *)

\* lines 1765-1790: the order document
OrderOf(order) ==
    LET with_coordinates == order.distance # {}
        delivery_info == calculate_delivery_charge(Val(order.distance),
                            order.total_amount, order.delivery_type)
        delivery_charge == IF with_coordinates THEN Val(delivery_info.delivery_charge)
                           ELSE 0
    IN  [user_id |-> order.user_id, items |-> order.items,
         total_amount |-> order.total_amount, discount_amount |-> order.discount_amount,
         delivery_charge |-> delivery_charge,
         delivery_distance_km |-> IF with_coordinates THEN {delivery_info.distance_km}
                                  ELSE {},
         final_amount |-> IF with_coordinates
                          THEN order.total_amount - order.discount_amount + delivery_charge
                          ELSE order.final_amount,
         coupon_code |-> order.coupon_code]

\* lines 1765-1799: build the order and insert it
create_order(order) ==
    /\ Step
    /\ orders' = Append(orders, OrderOf(order))
    /\ procs' = [procs EXCEPT ![NextSlot] =
                    Slot("create_order", IF order.coupon_code # {} THEN "inc" ELSE "clear",
                         order, {})]
    /\ UNCHANGED <<products, carts, coupons, offers, offer_usage, last, now, given, cache>>

\* lines 1802-1806: count the coupon's use
create_order_inc(p) ==
    /\ procs[p].op = "create_order" /\ procs[p].pc = "inc"
    /\ coupons' = IncUsedCount(coupons, Upper(Val(procs[p].req.coupon_code)))
    /\ procs' = [procs EXCEPT ![p].pc = "clear"]
    /\ UNCHANGED <<products, carts, offers, offer_usage, orders, last, now, budget, given, cache>>

\* lines 1808-1818: clear the user's cart and answer
create_order_clear(p) ==
    /\ procs[p].op = "create_order" /\ procs[p].pc = "clear"
    /\ carts' = ClearCart(carts, procs[p].req.user_id)
    /\ procs' = [procs EXCEPT ![p] = Done("create_order")]
    /\ last' = [Reply("create_order", 200, procs[p].req) EXCEPT
                    !.order = {OrderOf(procs[p].req)}]
    /\ UNCHANGED <<products, coupons, offers, offer_usage, orders, now, budget, given, cache>>

\* DELETE /coupons/{coupon_id}; a coupon's id is modelled by its code
delete_coupon(coupon_id) ==
    /\ Step
    /\ procs' = [procs EXCEPT ![NextSlot] = Done("delete_coupon")]
    /\ coupons' = [c \in DOMAIN coupons \ {coupon_id} |-> coupons[c]]
    /\ last' = Reply("delete_coupon", IF coupon_id \in DOMAIN coupons THEN 200 ELSE 404,
                     NoRequest)
    /\ UNCHANGED <<products, carts, offers, offer_usage, orders, now, given, cache>>

-----------------------------------------------------------------------------
(* Spec: concurrent coupon, offer and order requests.  Init draws the one    *)
(* coupon an admin has created; the clock stands at 1, so that the coupon's  *)
(* expiry_date is before, at or after it.                                    *)

Init ==
    /\ products = InitialProducts
    /\ carts = [u \in {"u1"} |-> QuotedCart]
    /\ coupons \in {[c \in {d.code} |-> d] : d \in CouponDocs}
    /\ offers = InitialOffers
    /\ offer_usage = <<>>
    /\ orders = <<>>
    /\ procs = [p \in Slots |-> Idle]
    /\ last = NoReply
    /\ now = 1
    /\ budget = MaxRequests
    /\ given = <<>>
    /\ cache = <<>>

Next ==
    \/ \E r \in ApplyRequests : apply_coupon(r)
    \/ \E p \in Slots : apply_coupon_count(p)
    \/ \E p \in Slots : apply_coupon_products(p)
    \/ \E c \in OfferCarts : apply_offers_to_cart(c, "u1")
    \/ \E o \in OrderRequests : create_order(o)
    \/ \E p \in Slots : create_order_inc(p)
    \/ \E p \in Slots : create_order_clear(p)
    \/ \E c \in {"SAVE10"} : delete_coupon(c)

Spec == Init /\ [][Next]_vars

-----------------------------------------------------------------------------
(* PlaceSpec: orders placed among cart and catalog requests.  Init draws the *)
(* cart the earlier cart requests left u1: none, or the cart u1 orders.      *)

PlaceInit ==
    /\ products = InitialProducts
    /\ carts \in {<<>>, [u \in {"u1"} |-> QuotedCart]}
    /\ coupons = [c \in {"SAVE10"} |-> Percentage(10)]
    /\ offers = <<>>
    /\ offer_usage = <<>>
    /\ orders = <<>>
    /\ procs = [p \in Slots |-> Idle]
    /\ last = NoReply
    /\ now = 1
    /\ budget = MaxRequests
    /\ given = <<>>
    /\ cache = <<>>

PlaceNext ==
    \/ \E o \in OrderRequests : create_order(o)
    \/ \E p \in Slots : create_order_inc(p)
    \/ \E p \in Slots : create_order_clear(p)
    \/ \E u \in Users, pid \in ProductIds, w \in Weights, q \in ReqQuantities :
            add_to_cart(u, pid, w, q)
    \/ \E u \in Users : clear_cart(u)
    \/ \E pid \in ProductIds : delete_product(pid)
    \/ \E pid \in DOMAIN products : \E pu \in ProductUpdates(products[pid]) :
            update_product(pid, pu)

PlaceSpec == PlaceInit /\ [][PlaceNext]_vars

-----------------------------------------------------------------------------
(* DeliverySpec: delivery quotes, geocoding and orders with coordinates, as  *)
(* functions of the request.  One action applies one handler; the geocoding  *)
(* provider's answer is an input of the request that asks it.                *)

OrderAmounts == {Rupees(FREE_DELIVERY_MIN_AMOUNT - 1), Rupees(FREE_DELIVERY_MIN_AMOUNT)}
DeliveryTypes == {"delivery", "pickup", "Pickup"}
Addresses == {{}, {"64, Kaveri Nagar, Indore"}}

\* customer: {} or the coordinates in the reply; quote: {} or the quote;
\* cached: {} or the quote's "cached" flag
DeliveryReply(op, status) ==
    [op |-> op, status |-> status, pincode |-> {}, provider |-> Answer(FALSE, 0, <<>>),
     customer |-> {}, order_amount |-> 0, delivery_type |-> "", quote |-> {},
     cached |-> {}]

DeliveryFrame ==
    UNCHANGED <<products, carts, coupons, offers, offer_usage, orders, procs, now, given>>

\* geocode_address applied to a pincode, an address and the provider's answer
GeocodeAddress(pincode, address, provider) ==
    /\ Step
    /\ LET r == geocode_address(pincode, address, provider) IN
       last' = [DeliveryReply("geocode_address", IF r.raised THEN 500 ELSE 200) EXCEPT
                    !.pincode = pincode, !.provider = provider, !.customer = r.coords]
    /\ UNCHANGED cache /\ DeliveryFrame

\* POST /delivery/calculate (server.py:1721-1756)
calculate_delivery(pincode, address, order_amount, delivery_type, provider) ==
    /\ Step
    /\ LET r == geocode_address(pincode, address, provider)
           reply(status) == [DeliveryReply("calculate_delivery", status) EXCEPT
                                !.pincode = pincode, !.order_amount = order_amount,
                                !.delivery_type = delivery_type]
       IN  last' = IF r.raised THEN reply(500)
                   ELSE IF r.coords = {} THEN reply(400)
                   ELSE [reply(200) EXCEPT
                            !.customer = r.coords,
                            !.quote = {calculate_delivery_charge(
                                          RoundedDistance(Val(r.coords)),
                                          order_amount, delivery_type)}]
    /\ UNCHANGED cache /\ DeliveryFrame

\* calculate_delivery_charge of enhanced_delivery_system.py applied to its arguments
EnhancedCalculate(customer, order_amount, delivery_type) ==
    /\ Step
    /\ last' = [DeliveryReply("enhanced_calculate_delivery_charge", 200) EXCEPT
                    !.customer = {customer}, !.order_amount = order_amount,
                    !.delivery_type = delivery_type,
                    !.quote = {enhanced_calculate_delivery_charge(
                                  customer, order_amount, delivery_type)}]
    /\ UNCHANGED cache /\ DeliveryFrame

\* DeliveryCalculator.calculate_with_caching
calculate_with_caching(customer, order_amount, delivery_type) ==
    /\ Step
    /\ LET key == cache_key(customer, order_amount, delivery_type)
           reply == [DeliveryReply("calculate_with_caching", 200) EXCEPT
                        !.customer = {customer}, !.order_amount = order_amount,
                        !.delivery_type = delivery_type]
       IN  IF key \in DOMAIN cache
           THEN /\ last' = [reply EXCEPT !.quote = {cache[key]}, !.cached = {TRUE}]
                /\ UNCHANGED cache
           ELSE LET result == enhanced_calculate_delivery_charge(
                                  customer, order_amount, delivery_type)
                IN  /\ cache' = CachePut(cache, key, result)
                    /\ last' = [reply EXCEPT !.quote = {result}, !.cached = {FALSE}]
    /\ DeliveryFrame

\* DeliveryCalculator.clear_cache
clear_cache ==
    /\ Step
    /\ cache' = <<>>
    /\ last' = DeliveryReply("clear_cache", 200)
    /\ DeliveryFrame

\* the requests the calculator is asked: two destinations of one cache key on
\* either side of the free delivery radius, and one beyond the maximum distance
CachedDestinations ==
    {<<22828060, 75831860>>, <<22828140, 75831860>>, <<23259900, 77412600>>}

\* orders with coordinates: 50.01 km and 171.88 km from the shop
DeliveryOrders ==
    {OrderCreate("u1", QuotedCart, LineTotals(QuotedCart), 0, LineTotals(QuotedCart),
                 {}, t, {RoundedDistance(c)}) :
        t \in {"delivery", "pickup"},
        c \in {<<23187900, 75831900>>, <<23259900, 77412600>>}}

DeliveryInit ==
    /\ products = InitialProducts
    /\ carts = [u \in {"u1"} |-> QuotedCart]
    /\ coupons = <<>>
    /\ offers = <<>>
    /\ offer_usage = <<>>
    /\ orders = <<>>
    /\ procs = [p \in Slots |-> Idle]
    /\ last = DeliveryReply("none", 0)
    /\ now = 1
    /\ budget = 1
    /\ given = <<>>
    /\ cache = <<>>

DeliveryNext ==
    \/ \E p \in Pincodes, a \in Addresses, r \in ProviderAnswers : GeocodeAddress(p, a, r)
    \/ \E p \in Pincodes \ {{}}, a \in Addresses, m \in OrderAmounts, t \in DeliveryTypes,
          r \in ProviderAnswers : calculate_delivery(p, a, m, t, r)
    \/ \E c \in Destinations, m \in OrderAmounts, t \in DeliveryTypes :
            EnhancedCalculate(c, m, t)
    \/ \E o \in DeliveryOrders : create_order(o)
    \/ \E p \in Slots : create_order_clear(p)

DeliverySpec == DeliveryInit /\ [][DeliveryNext]_vars

-----------------------------------------------------------------------------
(* CacheSpec: calls of the one DeliveryCalculator, delivery_calculator *)

MaxCalls == 2     \* calls in one behaviour of CacheSpec

CacheInit ==
    /\ products = InitialProducts
    /\ carts = <<>>
    /\ coupons = <<>>
    /\ offers = <<>>
    /\ offer_usage = <<>>
    /\ orders = <<>>
    /\ procs = NoProcs
    /\ last = DeliveryReply("none", 0)
    /\ now = 1
    /\ budget = MaxCalls
    /\ given = <<>>
    /\ cache = <<>>

CacheNext ==
    \/ \E c \in CachedDestinations, m \in OrderAmounts, t \in {"delivery", "pickup"} :
            calculate_with_caching(c, m, t)
    \/ clear_cache

CacheSpec == CacheInit /\ [][CacheNext]_vars

-----------------------------------------------------------------------------
(* EvalSpec: apply_coupon as a function of the stored coupon and the request *)

BuyXGetY(x, y) == [Coupon("buy_x_get_y") EXCEPT !.buy_quantity = {x}, !.get_quantity = {y}]
Flat(amount) == [Coupon("flat") EXCEPT !.discount_amount = {amount}]

EvalCoupons ==
    {BuyXGetY(2, 1),
     [BuyXGetY(2, 1) EXCEPT !.buy_product_ids = {"m"}],
     BuyXGetY(1, 2),
     [Percentage(10) EXCEPT !.max_discount_amount = {Rupees(50)}],
     [Percentage(10) EXCEPT !.max_discount_amount = {0}],
     [Percentage(10) EXCEPT !.min_order_amount = Rupees(500)],
     [Percentage(50) EXCEPT !.product_ids = {"m"}, !.min_order_amount = Rupees(300)],
     [Coupon("category_discount") EXCEPT !.category_names = {"laddu"},
                                         !.discount_percentage = {20},
                                         !.max_discount_amount = {Rupees(40)}],
     Flat(Rupees(100)),
     [Flat(Rupees(300)) EXCEPT !.product_ids = {"m"}]}

\* the carts of the requests: units priced 100, 150 and 200; one unit; two
\* units of one line; a line of a product the catalog does not hold
EvalCarts ==
    {<<Line("m", "250g", 1, Rupees(100)), Line("m", "1-250g", 1, Rupees(150)),
       Line("k-1", "250g", 1, Rupees(200))>>,
     <<Line("k-1", "250g", 1, Rupees(200))>>,
     <<Line("m", "250g", 2, Rupees(100)), Line("k-1", "250g", 1, Rupees(200))>>,
     <<Line("k", "250g", 2, Rupees(50)), Line("m", "250g", 1, Rupees(100))>>}

EvalRequests ==
    {CouponApply("SAVE10", LineTotals(c), c, {}) : c \in EvalCarts}
    \cup {CouponApply("save10", a, <<>>, {}) : a \in {Rupees(50), Rupees(1000)}}

EvalInit ==
    /\ products = InitialProducts
    /\ carts = <<>>
    /\ coupons \in {[c \in {d.code} |-> d] : d \in EvalCoupons}
    /\ offers = <<>>
    /\ offer_usage = <<>>
    /\ orders = <<>>
    /\ procs = [p \in Slots |-> Idle]
    /\ last = NoReply
    /\ now = 1
    /\ budget = 1
    /\ given = <<>>
    /\ cache = <<>>

EvalNext ==
    \/ \E r \in EvalRequests : apply_coupon(r)
    \/ \E p \in Slots : apply_coupon_products(p)

EvalSpec == EvalInit /\ [][EvalNext]_vars

-----------------------------------------------------------------------------
(* OfferSpec: /offers/apply-to-cart and /coupons/apply at the instants around *)
(* the validity window, on the offers an administrator stored                 *)

PercentOff(id, pct, priority, stackable, created_at) ==
    [Offer(id, "percentage", priority) EXCEPT !.discount_percentage = {pct},
                                              !.stackable = stackable,
                                              !.created_at = created_at,
                                              !.start_date = 1]

\* the stored offers: a stackable rule above a non-stackable one; the same
\* with the non-stackable rule on top; two rules of one priority; a flat
\* rule with a percentage rule; three stackable rules of two priorities
OfferSets ==
    {[id \in {"oa", "ob"} |->
        IF id = "oa"
        THEN [PercentOff("oa", 10, 10, TRUE, 0) EXCEPT !.applicable_product_ids = {"m"}]
        ELSE PercentOff("ob", 5, 5, FALSE, 1)],
     [id \in {"oa", "ob"} |->
        IF id = "oa"
        THEN [PercentOff("oa", 10, 5, TRUE, 0) EXCEPT !.category_names = {"laddu"}]
        ELSE PercentOff("ob", 5, 10, FALSE, 1)],
     [id \in {"oc", "od"} |->
        IF id = "oc" THEN PercentOff("oc", 10, 5, FALSE, 0)
        ELSE PercentOff("od", 5, 5, FALSE, 1)],
     [id \in {"oe", "of"} |->
        IF id = "oe"
        THEN [Offer("oe", "flat_discount", 2) EXCEPT !.discount_amount = {Rupees(200)},
                                                     !.start_date = 1]
        ELSE PercentOff("of", 10, 1, TRUE, 1)],
     [id \in {"og", "oh", "oi"} |->
        IF id = "og" THEN PercentOff("og", 10, 5, TRUE, 0)
        ELSE IF id = "oh" THEN PercentOff("oh", 5, 5, TRUE, 1)
        ELSE [PercentOff("oi", 20, 7, TRUE, 2) EXCEPT !.end_date = 3]]}

Instants == 0..3

OfferSpecCarts ==
    {<<OfferItem("m", "laddu", Rupees(180), 1), OfferItem("k-1", "mithai", Rupees(450), 1)>>,
     <<OfferItem("m", "laddu", Rupees(100), 2)>>,
     <<OfferItem("k-1", "mithai", Rupees(450), 2), OfferItem("k", "namkeen", Rupees(100), 1)>>,
     <<OfferItem("k", "namkeen", Rupees(50), 1)>>}

WindowRequests ==
    {CouponApply("SAVE10", Rupees(1000), <<>>, {}),
     CouponApply("SAVE10", Rupees(450), <<Line("k-1", "250g", 1, Rupees(450))>>, {"u1"})}

OfferInit ==
    /\ products = InitialProducts
    /\ carts = <<>>
    /\ coupons = [c \in {"SAVE10"} |-> Percentage(10)]
    /\ offers \in OfferSets
    /\ offer_usage = <<>>
    /\ orders = <<>>
    /\ procs = [p \in Slots |-> Idle]
    /\ last = NoReply
    /\ now \in Instants
    /\ budget = 1
    /\ given = <<>>
    /\ cache = <<>>

OfferNext ==
    \/ \E c \in OfferSpecCarts : apply_offers_to_cart(c, "u1")
    \/ \E r \in WindowRequests : apply_coupon(r)
    \/ \E p \in Slots : apply_coupon_products(p)

OfferSpec == OfferInit /\ [][OfferNext]_vars

-----------------------------------------------------------------------------
(* ConcurrentSpec: requests of one user and of an admin served concurrently. *)
(* Every await on the database is a step of its own: a handler reads, and    *)
(* writes what it computed from what it read.                                *)

MaxWorkers == 2      \* requests in flight

Workers == 1..MaxWorkers
Shopper == "u1"

NoLine == Line("", "", 0, 0)

\* what a handler holds between its awaits: the request, the variant price
\* and the cart items it read
Task(op, pc, status) ==
    [op |-> op, pc |-> pc, status |-> status, item |-> NoLine, guest |-> <<>>,
     product_id |-> "", cart_items |-> <<>>]
Waiting == Task("none", "idle", 0)

AddRequests == {<<"m", "250g">>, <<"k-1", "250g">>}
GuestLists == {<<Line("m", "250g", 1, Rupees(180))>>}
Deletable == {"m"}

StoredItems(u) == IF u \in DOMAIN carts THEN carts[u] ELSE <<>>

ConcurrentFrame ==
    UNCHANGED <<coupons, offers, offer_usage, orders, last, now, budget, given, cache>>

\* add_to_cart, lines 932-944: find the product and the variant price
add_to_cart_find_product(w, pid, weight) ==
    /\ procs[w].pc = "idle"
    /\ LET variant == IF pid \in DOMAIN products
                      THEN FindVariant(products[pid].variants, weight) ELSE {}
       IN  procs' = [procs EXCEPT ![w] =
                IF pid \notin DOMAIN products THEN Task("add_to_cart", "done", 404)
                ELSE IF variant = {} THEN Task("add_to_cart", "done", 400)
                ELSE [Task("add_to_cart", "find_cart", 0) EXCEPT
                        !.item = Line(pid, weight, 1, Val(variant).price)]]
    /\ UNCHANGED <<products, carts>> /\ ConcurrentFrame

\* lines 947-955: find the cart, insert one when there is none
add_to_cart_find_cart(w) ==
    /\ procs[w].op = "add_to_cart" /\ procs[w].pc = "find_cart"
    /\ procs' = [procs EXCEPT ![w].pc = "update", ![w].cart_items = StoredItems(Shopper)]
    /\ carts' = IF Shopper \in DOMAIN carts THEN carts ELSE PutCart(carts, Shopper, <<>>)
    /\ UNCHANGED products /\ ConcurrentFrame

\* lines 957-976: $set the items computed from the cart read
add_to_cart_update(w) ==
    /\ procs[w].op = "add_to_cart" /\ procs[w].pc = "update"
    /\ carts' = PutCart(carts, Shopper, AddLine(procs[w].cart_items, procs[w].item))
    /\ procs' = [procs EXCEPT ![w].pc = "done", ![w].status = 200]
    /\ UNCHANGED products /\ ConcurrentFrame

\* merge_cart, lines 1078-1085
merge_cart_find_cart(w, guest_cart_items) ==
    /\ procs[w].pc = "idle"
    /\ procs' = [procs EXCEPT ![w] =
            [Task("merge_cart", "update", 0) EXCEPT
                !.guest = guest_cart_items, !.cart_items = StoredItems(Shopper)]]
    /\ carts' = IF Shopper \in DOMAIN carts THEN carts ELSE PutCart(carts, Shopper, <<>>)
    /\ UNCHANGED products /\ ConcurrentFrame

\* lines 1087-1101
merge_cart_update(w) ==
    /\ procs[w].op = "merge_cart" /\ procs[w].pc = "update"
    /\ carts' = PutCart(carts, Shopper, MergeCartItems(procs[w].cart_items, procs[w].guest))
    /\ procs' = [procs EXCEPT ![w].pc = "done", ![w].status = 200]
    /\ UNCHANGED products /\ ConcurrentFrame

\* clear_cart, and the last write of create_order: one $set of items to []
clear_cart_update(w) ==
    /\ procs[w].pc = "idle"
    /\ carts' = IF Shopper \in DOMAIN carts THEN PutCart(carts, Shopper, <<>>) ELSE carts
    /\ procs' = [procs EXCEPT ![w] = Task("clear_cart", "done", 200)]
    /\ UNCHANGED products /\ ConcurrentFrame

\* delete_product, lines 739-741: delete_one
delete_product_delete(w, pid) ==
    /\ procs[w].pc = "idle"
    /\ IF pid \notin DOMAIN products
       THEN /\ procs' = [procs EXCEPT ![w] =
                    [Task("delete_product", "done", 404) EXCEPT !.product_id = pid]]
            /\ UNCHANGED products
       ELSE /\ products' = [x \in DOMAIN products \ {pid} |-> products[x]]
            /\ procs' = [procs EXCEPT ![w] =
                    [Task("delete_product", "pull", 0) EXCEPT !.product_id = pid]]
    /\ UNCHANGED carts /\ ConcurrentFrame

\* lines 743-747: update_many $pull
delete_product_pull(w) ==
    /\ procs[w].op = "delete_product" /\ procs[w].pc = "pull"
    /\ carts' = PullProduct(carts, procs[w].product_id)
    /\ procs' = [procs EXCEPT ![w].pc = "done", ![w].status = 200]
    /\ UNCHANGED products /\ ConcurrentFrame

\* given: the cart the requests found
ConcurrentInit ==
    /\ products = InitialProducts
    /\ given \in {<<>>, <<Line("m", "250g", 1, Rupees(180))>>}
    /\ carts = [u \in {Shopper} |-> given]
    /\ coupons = <<>>
    /\ offers = <<>>
    /\ offer_usage = <<>>
    /\ orders = <<>>
    /\ procs = [w \in Workers |-> Waiting]
    /\ last = NoResp
    /\ now = 0
    /\ budget = 0
    /\ cache = <<>>

ConcurrentNext ==
    \/ \E w \in Workers, k \in AddRequests : add_to_cart_find_product(w, k[1], k[2])
    \/ \E w \in Workers : add_to_cart_find_cart(w)
    \/ \E w \in Workers : add_to_cart_update(w)
    \/ \E w \in Workers, g \in GuestLists : merge_cart_find_cart(w, g)
    \/ \E w \in Workers : merge_cart_update(w)
    \/ \E w \in Workers : clear_cart_update(w)
    \/ \E w \in Workers, pid \in Deletable : delete_product_delete(w, pid)
    \/ \E w \in Workers : delete_product_pull(w)

ConcurrentSpec == ConcurrentInit /\ [][ConcurrentNext]_vars

-----------------------------------------------------------------------------
(* Properties of the cart handlers *)

\* C6: a persisted cart holds at most one line per (product_id, variant_weight)
KeysUnique(items) ==
    \A i, j \in 1..Len(items) :
        i # j => ~SameKey(items[i], items[j].product_id, items[j].variant_weight)

C6_CartKeysUnique == \A u \in DOMAIN carts : KeysUnique(carts[u])

\* C7: every line of a persisted cart has quantity > 0
C7_CartQuantitiesPositive ==
    \A u \in DOMAIN carts : \A i \in 1..Len(carts[u]) : carts[u][i].quantity > 0

\* the handlers that reconcile with validate_cart_items, and those that store the result
UsesValidateCartItems ==
    last.op \in {"sync_cart", "merge_guest_cart", "cleanup_cart", "validate_cart_request"}
StoresResult ==
    \/ last.op \in {"sync_cart", "merge_guest_cart"}
    \/ last.op = "cleanup_cart" /\ last.had_cart

HasProduct(l) == l.product_id \in DOMAIN products
HasVariant(l) ==
    HasProduct(l) /\ \E i \in 1..Len(products[l.product_id].variants) :
                        products[l.product_id].variants[i].weight = l.variant_weight
\* the variant a line names: the first one of the product with the line's weight
VariantOf(l) ==
    LET vs == products[l.product_id].variants
        i == CHOOSE i \in 1..Len(vs) :
                /\ vs[i].weight = l.variant_weight
                /\ \A j \in 1..(i - 1) : vs[j].weight # l.variant_weight
    IN  vs[i]
OnSale(l) ==
    /\ HasVariant(l)
    /\ products[l.product_id].is_available /\ ~products[l.product_id].is_sold_out
    /\ VariantOf(l).is_available
InStock(l) == OnSale(l) /\ l.quantity <= VariantOf(l).stock

KeyQty(items) ==
    [i \in 1..Len(items) |->
        <<items[i].product_id, items[i].variant_weight, items[i].quantity>>]
Range(s) == {s[i] : i \in 1..Len(s)}

MissingIdx(items) == {i \in 1..Len(items) : ~HasProduct(items[i])}
DriftIdx(items) == {i \in 1..Len(items) :
                        InStock(items[i]) /\ items[i].price # VariantOf(items[i]).price}

C10_OverStockDropped ==
    UsesValidateCartItems =>
        /\ KeyQty(last.valid_items) = KeyQty(SelectSeq(last.checked, InStock))
        /\ \A i \in 1..Len(last.checked) :
              (OnSale(last.checked[i]) /\ ~InStock(last.checked[i]))
              => Invalid(last.checked[i], "Insufficient stock") \in Range(last.invalid_items)
        /\ StoresResult => carts[last.user] = last.valid_items

\* sync_cart merged a stored and an incoming quantity, each within the stock,
\* into one beyond it and dropped the line, while keeping another line
C10_Witness ==
    /\ last.op = "sync_cart" /\ last.had_cart
    /\ \E e \in Range(last.existing), n \in Range(last.incoming), c \in Range(last.checked) :
          /\ SameKey(e, n.product_id, n.variant_weight)
          /\ SameKey(c, n.product_id, n.variant_weight)
          /\ InStock(e) /\ InStock(n) /\ OnSale(c) /\ ~InStock(c)
          /\ c.quantity = e.quantity + SumSeq([i \in 1..Len(last.incoming) |->
                IF SameKey(last.incoming[i], c.product_id, c.variant_weight)
                THEN last.incoming[i].quantity ELSE 0])
          /\ \A v \in Range(carts[last.user]) : ~SameKey(v, c.product_id, c.variant_weight)
    /\ carts[last.user] # <<>>

\* the quantity a cart holds for a (product_id, variant_weight)
QtyOfKey(items, pid, w) ==
    SumSeq([i \in 1..Len(items) |-> IF SameKey(items[i], pid, w) THEN items[i].quantity ELSE 0])

SameQuantities(a, b) ==
    \A k \in ProductIds \X Weights : QtyOfKey(a, k[1], k[2]) = QtyOfKey(b, k[1], k[2])

BothMerged == given # <<>> /\ budget = 0

\* C8: for lines A, B, C with pairwise distinct keys, merging [C] into the
\* cart [A, B] and merging [B, C] into the cart [A] leave carts with the same
\* quantity for every key.
C8_MergeCommutes == BothMerged => SameQuantities(carts["u1"], carts["u2"])

\* the same for server.py's merge_cart alone, and for the sync handlers when
\* no two of the three lines have the same joined key
MergeCartCommutes ==
    (BothMerged /\ last.op = "merge_cart") => SameQuantities(carts["u1"], carts["u2"])
SyncCommutesApartFromJoinedKeys ==
    (BothMerged /\ \A i, j \in 1..3 : i # j => ItemKey(given[i]) # ItemKey(given[j]))
        => SameQuantities(carts["u1"], carts["u2"])

-----------------------------------------------------------------------------
(* Properties of the coupon, offer and order handlers *)

\* the committed orders that carry a coupon's code, in any case
CarriesCode(o, c) == o.coupon_code # {} /\ Upper(Val(o.coupon_code)) = c
OrdersCarrying(c) == {i \in 1..Len(orders) : CarriesCode(orders[i], c)}

\* C1: a coupon's used_count never exceeds its usage_limit, whatever the
\* interleaving of apply_coupon and create_order requests with its code
C1_UsedCountWithinLimit ==
    \A c \in DOMAIN coupons :
        coupons[c].usage_limit # {} => coupons[c].used_count <= Val(coupons[c].usage_limit)

\* C2: the committed orders of one user that carry a coupon's code never
\* outnumber the coupon's per_user_limit
C2_UserOrdersWithinLimit ==
    \A c \in DOMAIN coupons, u \in Users :
        coupons[c].per_user_limit # {} =>
            Cardinality({i \in OrdersCarrying(c) : orders[i].user_id = u})
                <= Val(coupons[c].per_user_limit)

\* a step of a quoting handler, and the step of create_order's slot p that
\* counts a use of the coupon with code c
QuoteStep ==
    \E p \in Slots : /\ procs'[p].pc # procs[p].pc
                     /\ procs'[p].op \in {"apply_coupon", "apply_offers_to_cart"}
CountStep(p, c) ==
    /\ procs[p].op = "create_order" /\ procs[p].pc = "inc" /\ procs'[p].pc # "inc"
    /\ CarriesCode(procs[p].req, c)
    /\ \E i \in OrdersCarrying(c) : orders[i] = OrderOf(procs[p].req)

QuotingStepIsPure ==
    /\ QuoteStep => UNCHANGED <<coupons, offers, offer_usage, carts, orders>>
    /\ \A c \in DOMAIN coupons \cap DOMAIN coupons' :
          coupons'[c].used_count =
              coupons[c].used_count + Cardinality({p \in Slots : CountStep(p, c)})

\* the orders whose create_order has not yet counted the coupon's use
Uncounted(c) ==
    {p \in Slots : /\ procs[p].op = "create_order" /\ procs[p].pc = "inc"
                   /\ CarriesCode(procs[p].req, c)}

UsedCountIsOrdersCounted ==
    \A c \in DOMAIN coupons :
        coupons[c].used_count = Cardinality(OrdersCarrying(c)) - Cardinality(Uncounted(c))

\* C3: a step of apply_coupon or apply_offers_to_cart leaves coupons, offers,
\* usage records, carts and orders unchanged; a coupon's used_count changes
\* only in the step of create_order that follows the insertion of an order
\* carrying its code, by +1, so that it is the number of such orders counted
C3_QuotingIsPure == [][QuotingStepIsPure]_vars /\ []UsedCountIsOrdersCounted

\* an order with the coupon's code was committed and counted once, and a
\* quote of that coupon answered afterwards left the count at 1
C3_Witness ==
    /\ last.op = "apply_coupon" /\ last.status = 200
    /\ Len(orders) = 1
    /\ \A p \in Slots : procs[p].pc = "done"
    /\ \E c \in DOMAIN coupons :
          /\ last.coupon # {} /\ Val(last.coupon).code = c
          /\ OrdersCarrying(c) = {1}
          /\ coupons[c].used_count = 1

\* the conditions under which the coupon apply_coupon read must be refused;
\* a coupon whose expiry_date is the very instant apply_coupon reads the
\* clock is left aside
Inactive(coupon) == ~coupon.is_active
Expired(coupon, at) == coupon.expiry_date < at
Exhausted(coupon) ==
    coupon.usage_limit # {} /\ coupon.used_count >= Val(coupon.usage_limit)

Refused(reply) ==
    reply.status # 200 /\ reply.discount_amount = {} /\ reply.final_amount = {}

\* C4: apply_coupon with a code of no coupon answers 404 (NotFound), with a
\* code of an inactive, expired or usage-exhausted coupon it answers an error;
\* either way the reply carries no discount and no final amount
C4_InvalidCouponRefused ==
    last.op = "apply_coupon" =>
        /\ last.coupon = {} => last.status = 404 /\ Refused(last)
        /\ ( /\ last.coupon # {}
             /\ \/ Inactive(Val(last.coupon))
                \/ Expired(Val(last.coupon), last.at)
                \/ Exhausted(Val(last.coupon)) )
           => Refused(last)

\* C5: the final_amount apply_coupon returns for an order_amount >= 0, and
\* the final_amount of every committed order, is never below zero
C5_PayableNotNegative ==
    /\ (last.op = "apply_coupon" /\ last.status = 200 /\ last.req.order_amount >= 0)
            => Val(last.final_amount) >= 0
    /\ \A i \in 1..Len(orders) : orders[i].final_amount >= 0

-----------------------------------------------------------------------------
(* Properties of reconciliation: prices *)

Drifted(l) == l.price # VariantOf(l).price
Repriced(l) == [l EXCEPT !.price = VariantOf(l).price]
WarningOf(l) ==
    "Price updated for " \o products[l.product_id].name \o " (" \o l.variant_weight \o ")"

\* the lines validate_cart_items keeps, as it read them
KeptLines == SelectSeq(last.checked, InStock)

\* C11: after a reconciliation by validate_cart_items every surviving line
\* carries the catalog price of its variant; the survivors are the kept lines
\* with the price corrected, a kept line whose price differed gives exactly
\* one warning (naming its product and weight) and a kept line whose price
\* matched gives none.
C11_PricesReconciled ==
    UsesValidateCartItems =>
        /\ \A i \in 1..Len(last.valid_items) :
              /\ HasVariant(last.valid_items[i])
              /\ ~Drifted(last.valid_items[i])
        /\ last.valid_items = [i \in 1..Len(KeptLines) |-> Repriced(KeptLines[i])]
        /\ LET drifted == SelectSeq(KeptLines, Drifted) IN
           last.warnings = [i \in 1..Len(drifted) |-> WarningOf(drifted[i])]
        /\ StoresResult => carts[last.user] = last.valid_items

\* a reconciliation kept a line whose price had drifted and a line whose
\* price matched, stored both at the catalog price and warned once
C11_Witness ==
    /\ UsesValidateCartItems /\ StoresResult
    /\ \E i, j \in 1..Len(KeptLines) : Drifted(KeptLines[i]) /\ ~Drifted(KeptLines[j])
    /\ Len(carts[last.user]) = Len(KeptLines)
    /\ Len(last.warnings) = 1

-----------------------------------------------------------------------------
(* Properties of reconciliation: repetition *)

\* the second reconciliation, of a stored cart, has answered
Repeated == budget = 0 /\ last.had_cart /\ last.incoming = <<>> /\ StoresResult

Unchanged == carts[last.user] = last.existing /\ last.warnings = <<>>

\* C12: reconciling the cart a reconciliation stored once more, with no
\* incoming lines and the catalog unchanged, leaves its lines, quantities and
\* prices as they were and emits no warning.
C12_ReconcileIdempotent == Repeated => Unchanged

\* the same when the stored cart has one line per (product_id, variant_weight)
IdempotentOnUniqueKeys == (Repeated /\ KeysUnique(last.existing)) => Unchanged
\* the same for cleanup_cart, which does not merge
CleanupIdempotent == (Repeated /\ last.op = "cleanup_cart") => Unchanged

-----------------------------------------------------------------------------
(* Properties of create_order *)

Placed == last.op = "create_order" /\ last.status = 200
PlacedBy == last.req.user_id

Committed == orders'[Len(orders')]
Commits == Len(orders') = Len(orders) + 1

\* C14: every line of an order create_order commits names a product and a
\* variant that exist and are on sale, with a quantity within the variant's
\* stock, in the catalog as it stands at the commit
C14_StockCheckedAtCommit ==
    [][Commits => \A i \in 1..Len(Committed.items) : InStock(Committed.items[i])]_vars

-----------------------------------------------------------------------------
(* Properties of the delivery calculators.  They are stated on the reply of  *)
(* a calculator: POST /delivery/calculate, which answers with the quote of   *)
(* delivery_utils.py, and calculate_delivery_charge of                       *)
(* enhanced_delivery_system.py.                                              *)

ByUtils == last.op = "calculate_delivery" /\ last.status = 200
ByEnhanced == last.op = "enhanced_calculate_delivery_charge"
TheQuote == Val(last.quote)
AsDelivery == Lower(last.delivery_type) # "pickup"
AsPickup == Lower(last.delivery_type) = "pickup"
Distance == RoundedDistance(Val(last.customer))

OutOfRange ==
    \/ ByUtils /\ AsDelivery /\ Distance > Km(MAX_DELIVERY_DISTANCE_KM)
    \/ ByEnhanced /\ AsDelivery /\ Distance > Km(DeliveryConfig_MAX_DELIVERY_DISTANCE_KM)

RefusedQuote == TheQuote.error /\ TheQuote.delivery_charge = {}

OrderOutOfRange(o) ==
    /\ o.delivery_distance_km # {}
    /\ Val(o.delivery_distance_km) > Km(MAX_DELIVERY_DISTANCE_KM)

\* C15: a delivery quote for a distance beyond the maximum carries the error
\* marker and no charge, and no order whose destination is beyond the maximum
\* is stored with a delivery charge of 0
C15_OutOfRangeRefused ==
    /\ OutOfRange => RefusedQuote
    /\ \A i \in 1..Len(orders) : OrderOutOfRange(orders[i]) => orders[i].delivery_charge # 0

EnhancedOutOfRangeRefused == (ByEnhanced /\ OutOfRange) => RefusedQuote

FreeEligible ==
    \/ /\ ByUtils
       /\ last.order_amount >= Rupees(FREE_DELIVERY_MIN_AMOUNT)
       /\ Distance <= Km(FREE_DELIVERY_MAX_DISTANCE_KM)
    \/ /\ ByEnhanced
       /\ last.order_amount >= Rupees(DeliveryConfig_FREE_DELIVERY_THRESHOLD)
       /\ Distance <= Km(DeliveryConfig_FREE_DELIVERY_DISTANCE_KM)

\* C16: a delivery quote for an amount at or above the free threshold and a
\* distance within the free radius has charge 0 and is_free_delivery true;
\* every other delivery quote has is_free_delivery false
C16_FreeDeliveryOverride ==
    ((ByUtils \/ ByEnhanced) /\ AsDelivery) =>
        IF FreeEligible
        THEN TheQuote.delivery_charge = {0} /\ TheQuote.is_free_delivery
        ELSE ~TheQuote.is_free_delivery

\* a free quote at exactly the threshold and exactly the radius, by either calculator
C16_Witness ==
    /\ (ByUtils \/ ByEnhanced) /\ AsDelivery /\ FreeEligible
    /\ last.order_amount = Rupees(FREE_DELIVERY_MIN_AMOUNT)
    /\ Distance = Km(FREE_DELIVERY_MAX_DISTANCE_KM)
    /\ TheQuote.delivery_charge = {0} /\ TheQuote.is_free_delivery

\* base_charge + max(0, distance - base_distance) * per_km_rate, to 2 decimals
FormulaCharge(distance) ==
    Round2(Rupees(DeliveryConfig_BASE_DELIVERY_CHARGE)
           + (Max(0, distance - Km(DeliveryConfig_BASE_DISTANCE_KM))
              * Rupees(DeliveryConfig_DISTANCE_MULTIPLIER)) \div Km(1))

Charged == (ByUtils \/ ByEnhanced) /\ AsDelivery /\ ~OutOfRange /\ ~FreeEligible

\* C17: a delivery quote that is in range and not free charges the base
\* charge plus the per-km rate for every km beyond the base distance
C17_ChargeFormula == Charged => TheQuote.delivery_charge = {FormulaCharge(Distance)}

EnhancedChargeFormula ==
    (ByEnhanced /\ Charged) => TheQuote.delivery_charge = {FormulaCharge(Distance)}

\* C18: a pickup quote has charge 0, is_free_delivery true and distance 0,
\* whatever the destination and the order amount
C18_PickupIsFree ==
    ((ByUtils \/ ByEnhanced) /\ AsPickup) =>
        /\ TheQuote.delivery_charge = {0}
        /\ TheQuote.is_free_delivery
        /\ TheQuote.distance_km = 0

\* a pickup quote for a destination beyond the maximum delivery distance
C18_Witness ==
    /\ (ByUtils \/ ByEnhanced) /\ AsPickup
    /\ Distance > Km(MAX_DELIVERY_DISTANCE_KM)
    /\ TheQuote.delivery_charge = {0} /\ TheQuote.distance_km = 0

-----------------------------------------------------------------------------
(* Properties of the delivery cache *)

ByCache == last.op = "calculate_with_caching"
Computed ==
    enhanced_calculate_delivery_charge(Val(last.customer), last.order_amount,
                                       last.delivery_type)

\* C19: the quote calculate_with_caching returns is, apart from the cached
\* flag, the quote calculate_delivery_charge computes for the call's arguments
C19_CacheTransparent == ByCache => last.quote = {Computed}

CacheMissComputes == (ByCache /\ last.cached = {FALSE}) => last.quote = {Computed}

-----------------------------------------------------------------------------
(* Properties of geocode_address *)

ByGeocoder == last.op = "geocode_address"

KnownPrefix ==
    /\ last.pincode # {}
    /\ Len(Val(last.pincode)) >= 3
    /\ SubSeq(Val(last.pincode), 1, 3) \in DOMAIN pincode_map

Resolved ==
    IF Succeeds(last.provider)
    THEN <<Val(last.provider.data[1].lat), Val(last.provider.data[1].lon)>>
    ELSE IF KnownPrefix THEN pincode_map[SubSeq(Val(last.pincode), 1, 3)]
    ELSE INDORE_CENTER

-----------------------------------------------------------------------------
(* Properties of the coupon evaluators, stated on the reply of apply_coupon  *)

Evaluated(type) ==
    /\ last.op = "apply_coupon" /\ last.coupon # {}
    /\ Val(last.coupon).discount_type = type
TheCoupon == Val(last.coupon)
Eligible(status) == status = 200
NotEligible == last.status # 200 /\ last.discount_amount = {}

InCatalog(items) == ItemsOf(items, DOMAIN products)

\* the units of a list of lines, and the sum of the prices of a set of units
UnitsOf(items) == {<<i, j>> : i \in 1..Len(items), j \in 1..MaxReqQty} \cap
                  {u \in (1..Len(items)) \X (1..MaxReqQty) : u[2] <= items[u[1]].quantity}
RECURSIVE UnitSum(_, _)
UnitSum(items, units) ==
    IF units = {} THEN 0
    ELSE LET u == CHOOSE u \in units : TRUE
         IN  items[u[1]].price + UnitSum(items, units \ {u})

\* the least total of n units of the lines
CheapestUnits(items, n) ==
    LET totals == {UnitSum(items, s) :
                      s \in {t \in SUBSET UnitsOf(items) : Cardinality(t) = n}}
    IN  CHOOSE t \in totals : \A other \in totals : t <= other

BuyEligibleLines ==
    IF TheCoupon.buy_product_ids # {}
    THEN ItemsOf(last.req.cart_items, TheCoupon.buy_product_ids)
    ELSE InCatalog(last.req.cart_items)
FreeUnits == (Quantities(BuyEligibleLines) \div Val(TheCoupon.buy_quantity))
             * Val(TheCoupon.get_quantity)

\* C21: a buy-x-get-y coupon on eligible_qty >= buy_quantity units discounts
\* the cheapest min(free_units, eligible_qty) eligible units, with free_units
\* = floor(eligible_qty / buy_quantity) * get_quantity; below buy_quantity the
\* coupon is not eligible
C21_BuyXGetYCheapestFree ==
    Evaluated("buy_x_get_y") =>
        IF Quantities(BuyEligibleLines) >= Val(TheCoupon.buy_quantity)
        THEN /\ last.status = 200
             /\ last.discount_amount =
                    {CheapestUnits(BuyEligibleLines,
                                   Min(FreeUnits, Quantities(BuyEligibleLines)))}
        ELSE NotEligible

\* buy 2 get 1 on units priced 100, 150 and 200: discount 100
C21_Witness ==
    /\ Evaluated("buy_x_get_y") /\ last.status = 200
    /\ Val(TheCoupon.buy_quantity) = 2 /\ TheCoupon.buy_product_ids = {}
    /\ Len(last.req.cart_items) = 3 /\ last.req.order_amount = Rupees(450)
    /\ last.discount_amount = {Rupees(100)} /\ last.final_amount = {Rupees(350)}

ScopedLines ==
    IF TheCoupon.discount_type = "category_discount"
    THEN SelectSeq(InCatalog(last.req.cart_items),
                   LAMBDA l : products[l.product_id].category \in TheCoupon.category_names)
    ELSE ItemsOf(last.req.cart_items, TheCoupon.product_ids)
IsScoped ==
    TheCoupon.discount_type = "category_discount" \/ TheCoupon.product_ids # {}
EligibleBase == IF IsScoped THEN LineTotals(ScopedLines) ELSE last.req.order_amount
BaseEligible ==
    /\ IsScoped => ScopedLines # <<>>
    /\ EligibleBase >= TheCoupon.min_order_amount

PercentOfBase == (EligibleBase * Val(TheCoupon.discount_percentage)) \div 100
\* min(percent, cap or infinity): a cap of None or 0 is no cap
CappedPercent ==
    IF Truthy(TheCoupon.max_discount_amount)
    THEN Min(PercentOfBase, Val(TheCoupon.max_discount_amount))
    ELSE PercentOfBase

C23_FlatWithinBase ==
    (Evaluated("flat") /\ BaseEligible) =>
        /\ last.status = 200
        /\ last.discount_amount = {Min(Val(TheCoupon.discount_amount), EligibleBase)}

-----------------------------------------------------------------------------
(* Properties of apply_offers_to_cart, stated on its reply                   *)

OffersApplied == last.op = "apply_offers_to_cart"
Lines == 1..Len(last.items)
AppliedTo(i) == last.items[i].applied_offers
AppliedIds(i) == {AppliedTo(i)[k].offer_id : k \in 1..Len(AppliedTo(i))}
InWindow(offer, at) == offer.start_date <= at /\ at < offer.end_date
LineTotal(item) == item.price * item.quantity

\* a rule that would discount the line: active, in scope, discount above 0
Discounts(offer, item) ==
    /\ offer.is_active /\ InWindow(offer, now)
    /\ IsApplicable(offer, item)
    /\ _calculate_offer_discount(offer, item) > 0

\* C24: a non-stackable rule is never applied to a line a rule before it has
\* discounted, and it is applied to the lines it would discount that no rule
\* of its priority or above has discounted
C24_NonStackableSkipped ==
    OffersApplied =>
        \A i \in Lines :
            /\ \A k \in 1..Len(AppliedTo(i)) :
                    ~offers[AppliedTo(i)[k].offer_id].stackable => k = 1
            /\ \A id \in DOMAIN offers :
                    ( /\ ~offers[id].stackable
                      /\ Discounts(offers[id], last.items[i])
                      /\ id \notin AppliedIds(i) )
                    => \E other \in AppliedIds(i) :
                            offers[other].priority >= offers[id].priority

\* stackable priority 10 on product m, non-stackable priority 5 on all: line m
\* gets the first rule only, line k-1 the second
C24_Witness ==
    /\ OffersApplied /\ Len(last.items) = 2 /\ now = 1
    /\ DOMAIN offers = {"oa", "ob"} /\ offers["oa"].priority = 10
    /\ AppliedIds(1) = {"oa"} /\ Discounts(offers["ob"], last.items[1])
    /\ AppliedIds(2) = {"ob"}

Before(a, b) ==
    \/ a.priority > b.priority
    \/ a.priority = b.priority /\ a.created_at < b.created_at

\* C25: on every line the rules are applied by descending priority, and
\* among rules of one priority the one created earlier first
C25_PriorityThenCreation ==
    OffersApplied =>
        \A i \in Lines :
            /\ \A k \in 1..Len(AppliedTo(i)), l \in 1..Len(AppliedTo(i)) :
                    k < l => Before(offers[AppliedTo(i)[k].offer_id],
                                    offers[AppliedTo(i)[l].offer_id])
            /\ \A id \in DOMAIN offers :
                    ( /\ ~offers[id].stackable
                      /\ Discounts(offers[id], last.items[i])
                      /\ id \notin AppliedIds(i) )
                    => \E other \in AppliedIds(i) : Before(offers[other], offers[id])

ByPriority ==
    OffersApplied =>
        \A i \in Lines : \A k \in 1..Len(AppliedTo(i)), l \in 1..Len(AppliedTo(i)) :
            k < l => offers[AppliedTo(i)[k].offer_id].priority
                        >= offers[AppliedTo(i)[l].offer_id].priority

\* C26: validity is the half-open window start <= t < end: a coupon is
\* accepted only before its expiry_date, an offer applied only from its
\* start_date on and before its end_date
C26_HalfOpenWindow ==
    /\ (last.op = "apply_coupon" /\ last.status = 200) =>
            last.at < Val(last.coupon).expiry_date
    /\ OffersApplied =>
            \A i \in Lines : \A id \in AppliedIds(i) : InWindow(offers[id], now)

NotBeforeStart ==
    OffersApplied =>
        \A i \in Lines : \A id \in AppliedIds(i) : offers[id].start_date <= now

\* C30: the discount of a line never exceeds price * quantity of the line,
\* and the total discount never the total of the lines
C30_DiscountWithinLine ==
    OffersApplied =>
        /\ \A i \in Lines : last.items[i].offer_discount <= LineTotal(last.items[i])
        /\ last.total_discount
                <= SumSeq([i \in Lines |-> LineTotal(last.items[i])])

\* each applied rule's discount is computed from the price the client sent
FromOriginalPrice ==
    OffersApplied =>
        \A i \in Lines : \A k \in 1..Len(AppliedTo(i)) :
            /\ AppliedTo(i)[k].discount =
                    _calculate_offer_discount(offers[AppliedTo(i)[k].offer_id],
                                                last.items[i])
            /\ AppliedTo(i)[k].discount <= LineTotal(last.items[i])

-----------------------------------------------------------------------------
(* Merging by (product_id, variant_weight) in sync_cart and merge_guest_cart *)

Pairs == ProductIds \X Weights
Merged == last.op \in {"sync_cart", "merge_guest_cart"} /\ last.status = 200
PairsOf(items) == {<<items[i].product_id, items[i].variant_weight>> : i \in 1..Len(items)}
JoinedKey(k) == k[1] \o "-" \o k[2]

\* C28: the merged list holds, for every (product_id, variant_weight), the
\* quantities of the stored and the incoming lines of that pair and of no
\* other pair
C28_MergeBySamePair ==
    Merged =>
        \A k \in Pairs :
            QtyOfKey(last.checked, k[1], k[2])
                = QtyOfKey(last.existing, k[1], k[2]) + QtyOfKey(last.incoming, k[1], k[2])

\* the same when no two pairs of the request and the cart join to one key
MergeBySamePairApartFromJoinedKeys ==
    ( /\ Merged
      /\ \A a, b \in PairsOf(last.existing) \cup PairsOf(last.incoming) :
            a # b => JoinedKey(a) # JoinedKey(b) )
    => \A k \in Pairs :
            QtyOfKey(last.checked, k[1], k[2])
                = QtyOfKey(last.existing, k[1], k[2]) + QtyOfKey(last.incoming, k[1], k[2])

-----------------------------------------------------------------------------
(* Concurrent cart requests                                                  *)

AllDone == \A w \in Workers : procs[w].pc = "done"
CartRequestsOnly == \A w \in Workers : procs[w].op # "delete_product"

\* what a request does to the cart when it runs alone
Alone(task, cart_items) ==
    IF task.status # 200 THEN cart_items
    ELSE IF task.op = "add_to_cart" THEN AddLine(cart_items, task.item)
    ELSE IF task.op = "merge_cart" THEN MergeCartItems(cart_items, task.guest)
    ELSE IF task.op = "clear_cart" THEN <<>>
    ELSE cart_items

RECURSIVE Serial(_, _)
Serial(order, cart_items) ==
    IF order = <<>> THEN cart_items
    ELSE Serial(Tail(order), Alone(procs[Head(order)], cart_items))

Orders == {o \in [1..MaxWorkers -> Workers] : \A i, j \in 1..MaxWorkers : i # j => o[i] # o[j]}

\* C27: when the concurrent requests on one cart have all completed, the
\* cart is what the requests leave when they run one after the other in
\* some order
C27_CartLinearizable ==
    (AllDone /\ CartRequestsOnly) =>
        \E o \in Orders : SameQuantities(carts[Shopper], Serial(o, given))

\* the products whose delete_product has completed
Deleted == {procs[w].product_id : w \in {v \in Workers :
                /\ procs[v].op = "delete_product"
                /\ procs[v].pc = "done" /\ procs[v].status = 200}}

\* C29: once delete_product(p) has completed no cart holds a line of p
C29_DeletedProductNotInCarts ==
    \A u \in DOMAIN carts : \A i \in 1..Len(carts[u]) :
        carts[u][i].product_id \notin Deleted

\* the line of a deleted product comes from a request that wrote after the
\* $pull; with no request in flight at the deletion and none after it the
\* carts are clean
CleanWhenAlone ==
    (\A w \in Workers : procs[w].op \in {"delete_product", "none", "clear_cart"})
    => C29_DeletedProductNotInCarts
====
